---- MODULE Spec2Model ----
(***************************************************************************)
(* Model of the light_ui fabrication / shipment engine:                    *)
(*   - the Serial Ledger and the SAV Sub-Ledger (csv_serial_manager.py),   *)
(*   - the Command Router and the print worker (printer.py),               *)
(*   - the scan workflow state machine (scan_manager.py).                  *)
(* Text is modelled as sequences of one-character tokens; the fixed serial *)
(* prefix "RW-48v" is a single token.                                      *)
(***************************************************************************)
EXTENDS Integers, Sequences, FiniteSets, TLC

VARIABLES
    ledger,      \* rows of printed_serials.csv (header excluded), in file order
    savLedger,   \* rows of sav_batteries.csv (header excluded), in file order
    print_queue, \* MinimalPrinter.print_queue (deque of job tuples)
    published,   \* result published by the handler that ran last, or NoResult
    lastCmd,     \* history: the command handled last and what it met
    enqueued,    \* history: ids of the jobs appended to print_queue, in order
    removed,     \* history: ids of the jobs popped from print_queue, in order
    nextId,      \* history: id given to the next job appended
    wpc,         \* worker: position in _printer_worker_thread
    item_to_print, \* worker: local variable item_to_print
    success_v1, success_main, success_shipping, \* worker: _print_all_three_labels locals
    status_ready,  \* worker: status_info['ready'] of the probe of this cycle
    sent,        \* history: ids of the jobs for which a label was transmitted
    attempt,     \* history: labels transmitted since the last peek
    tries,       \* history: number of complete attempts made by the worker
    env,         \* the device as the worker meets it: allowed probe answers and send outcomes
    probe_log,   \* history: result of the last status probe and the connections it opened
    current_state, validated_model, temp_serial_to_validate, \* ScanManager session
    timeout_timer_id, \* ScanManager: TRUE while the countdown is armed
    scheduled_timeouts, \* Tk: _timeout_expired callbacks scheduled by app.after,
                        \* neither fired nor cancelled
    delayed_resets,   \* ScanManager: _reset_scan calls scheduled by _delayed_reset
    bus,         \* messages published by the scan session, not yet consumed
    serials_for_expedition, expedition_mode_active, \* ScanManager: expedition batch
    serial_for_sav, serial_to_reprint,              \* ScanManager: pending serials
    qr_text_to_print, qr_content_to_encode,         \* ScanManager: pending custom QR
    queue_lock,    \* MinimalPrinter.queue_lock: the thread that holds it, or "free"
    router,        \* router thread: position in the handler and its local job
    csv_rewrite,   \* rows a rewrite of printed_serials.csv has not written yet, or NoRewrite
    headers        \* the two ledger files: whether each exists and its first line when it is
                   \* not a data row

vars == <<ledger, savLedger, print_queue, published, lastCmd, enqueued, removed,
          nextId, wpc, item_to_print, success_v1, success_main, success_shipping,
          status_ready, sent, attempt, tries, env, probe_log, current_state, validated_model,
          temp_serial_to_validate, timeout_timer_id, scheduled_timeouts,
          delayed_resets, bus,
          serials_for_expedition, expedition_mode_active, serial_for_sav,
          serial_to_reprint, qr_text_to_print, qr_content_to_encode,
          queue_lock, router, csv_rewrite, headers>>

ledgerVars == <<ledger, savLedger>>
workerVars == <<wpc, item_to_print, success_v1, success_main, success_shipping,
                status_ready, sent, attempt, tries>>
queueHist  == <<enqueued, removed, nextId>>
deviceVars == <<env, probe_log>>
syncVars   == <<queue_lock, router, csv_rewrite, headers>>
scratchVars == <<serials_for_expedition, expedition_mode_active, serial_for_sav,
                 serial_to_reprint, qr_text_to_print, qr_content_to_encode>>
scanVars   == <<current_state, validated_model, temp_serial_to_validate,
                timeout_timer_id, scheduled_timeouts, delayed_resets, bus, scratchVars>>

-----------------------------------------------------------------------------
(* Bounds of the model *)
MaxRecords == 2
MaxSavRows == 2
MaxQueue   == 3
MaxTries   == 2
MaxBus     == 1
MaxPending == 1

(* Inputs *)
Timestamps    == {"t1", "t2"}
ArrivalInputs == {"t1"}
DepartInputs  == {"t2"}
LetterInputs  == {"A", "d"}
QRCodes       == {"q1", "q2"}

-----------------------------------------------------------------------------
(* Text helpers *)
None == <<>>
Digits == {"0", "1", "2", "3", "4", "5", "6", "7", "8", "9"}

DigitVal(c) ==
    CASE c = "0" -> 0 [] c = "1" -> 1 [] c = "2" -> 2 [] c = "3" -> 3
      [] c = "4" -> 4 [] c = "5" -> 5 [] c = "6" -> 6 [] c = "7" -> 7
      [] c = "8" -> 8 [] c = "9" -> 9

DigitChr(n) ==
    CASE n = 0 -> "0" [] n = 1 -> "1" [] n = 2 -> "2" [] n = 3 -> "3"
      [] n = 4 -> "4" [] n = 5 -> "5" [] n = 6 -> "6" [] n = 7 -> "7"
      [] n = 8 -> "8" [] n = 9 -> "9"

\* int(s) for a string of decimal digits
RECURSIVE int(_)
int(s) == IF s = <<>> THEN 0
          ELSE int(SubSeq(s, 1, Len(s) - 1)) * 10 + DigitVal(s[Len(s)])

\* str(n) for n >= 0
RECURSIVE str(_)
str(n) == IF n < 10 THEN <<DigitChr(n)>>
          ELSE str(n \div 10) \o <<DigitChr(n % 10)>>

\* s.zfill(w)
zfill(s, w) == IF Len(s) >= w THEN s ELSE [i \in 1..(w - Len(s)) |-> "0"] \o s

\* s.upper() on a one-letter string
upper(c) ==
    CASE c = "a" -> "A" [] c = "b" -> "B" [] c = "c" -> "C" [] c = "d" -> "D"
      [] c = "e" -> "E" [] c = "f" -> "F" [] OTHER -> c

\* s.lower() on the words and letters the program lowers
lower(w) ==
    CASE w = "True" -> "true" [] w = "TRUE" -> "true" [] w = "False" -> "false"
      [] w = "FINISH" -> "finish" [] w = "Finish" -> "finish"
      [] w = "A" -> "a" [] w = "B" -> "b" [] w = "C" -> "c" [] w = "D" -> "d"
      [] w = "E" -> "e" [] w = "F" -> "f"
      [] w = "RW-48v" -> "rw-48v" [] w = "X" -> "x"
      [] w = "SAV" -> "sav" [] w = "Reprint" -> "reprint"
      [] OTHER -> w

\* upper(), lower() and strip() of a text
upperText(t) == [i \in 1..Len(t) |-> upper(t[i])]
lowerText(t) == [i \in 1..Len(t) |-> lower(t[i])]
RECURSIVE strip(_)
strip(t) == IF t = <<>> THEN t
            ELSE IF t[1] = " " THEN strip(Tail(t))
            ELSE IF t[Len(t)] = " " THEN strip(SubSeq(t, 1, Len(t) - 1))
            ELSE t
\* t.split(" ", 1)[1]; callers check that t holds a space
RECURSIVE AfterFirstSpace(_)
AfterFirstSpace(t) == IF t = <<>> THEN t
                      ELSE IF t[1] = " " THEN Tail(t) ELSE AfterFirstSpace(Tail(t))

AllDigits(s) == \A i \in 1..Len(s) : s[i] \in Digits

\* s[-n:]
LastN(s, n) == IF Len(s) <= n THEN s ELSE SubSeq(s, Len(s) - n + 1, Len(s))

\* number of leading decimal digits of s
RECURSIVE DigitRun(_)
DigitRun(s) == IF s = <<>> \/ s[1] \notin Digits THEN 0 ELSE 1 + DigitRun(Tail(s))

-----------------------------------------------------------------------------
(* Program constants *)
SERIAL_PREFIX_BASE == "RW-48v"
SERIAL_NUMERIC_LENGTH == 4
SOFTWARE_VERSION == "v1"
XXX == <<"X", "X", "X">>

\* group(2) of re.compile(r"RW-48v(XXX|\d+)(\d{4})").search(serial), or None
LastSerialPattern(serial) ==
    IF serial = <<>> \/ serial[1] # SERIAL_PREFIX_BASE THEN None
    ELSE LET rest == Tail(serial)
             k    == DigitRun(rest)
         IN  IF Len(rest) >= 7 /\ SubSeq(rest, 1, 3) = XXX
                /\ AllDigits(SubSeq(rest, 4, 7))
             THEN SubSeq(rest, 4, 7)
             ELSE IF k >= 5 THEN SubSeq(rest, k - 3, k)
             ELSE None

\* group(1) of re.compile(r"(\d{4})$").search(serial), or None
TrailingDigitsPattern(serial) ==
    IF Len(serial) >= 4 /\ AllDigits(LastN(serial, 4)) THEN LastN(serial, 4)
    ELSE None

-----------------------------------------------------------------------------
(* Header initialisation: csv_serial_manager.py *)
\* the column names writer.writerow puts on the first line of each file
SERIAL_CSV_HEADER ==
    <<"TimestampImpression", "NumeroSerie", "CodeAleatoireQR", "TimestampTestDone",
      "TimestampExpedition", "type", "version", "sav_status">>
SAV_CSV_HEADER == <<"TimestampArrivee", "NumeroSerie", "TimestampDepart">>

\* a ledger file next to its data rows: exists is os.path.exists, line the
\* cells of its first line when that line is not a data row, <<>> otherwise
CsvFile(exists, line) == [exists |-> exists, line |-> line]
HeadersPresent ==
    [main |-> CsvFile(TRUE, SERIAL_CSV_HEADER), sav |-> CsvFile(TRUE, SAV_CSV_HEADER)]

\* content = f.read().strip(), as far as the test looks: the cells of the
\* first line, then the first cell of the first data row
Content(file, rows, column) ==
    file.line \o (IF rows # <<>> THEN <<rows[1][column]>> ELSE <<>>)

\* content.startswith(prefix); a cell of the model is the column name or does
\* not begin with it
content_startswith(content, prefix) == content # <<>> /\ content[1] = prefix

\* the file after open(mode='w') and writer.writerow(header): the header alone
Recreated(header) == [file |-> CsvFile(TRUE, header), rows |-> <<>>]

\* initialize_serial_csv on printed_serials.csv; fault "read" is an exception
\* raised while the file is read
initialize_serial_csv(file, rows, fault) ==
    LET content == Content(file, rows, "TimestampImpression")
        file_needs_header ==
            IF ~file.exists THEN TRUE
            ELSE IF fault = "read" THEN TRUE
            ELSE IF content = <<>> THEN TRUE
            ELSE ~content_startswith(content, "TimestampImpression")
    IN  IF file_needs_header THEN Recreated(SERIAL_CSV_HEADER)
        ELSE [file |-> file, rows |-> rows]

\* initialize_sav_csv on sav_batteries.csv
initialize_sav_csv(file, rows, fault) ==
    LET content == Content(file, rows, "TimestampArrivee")
        file_needs_header ==
            IF ~file.exists THEN TRUE
            ELSE IF fault = "read" THEN TRUE
            ELSE IF content = <<>> THEN TRUE
            ELSE ~content_startswith(content, "TimestampArrivee")
    IN  IF file_needs_header THEN Recreated(SAV_CSV_HEADER)
        ELSE [file |-> file, rows |-> rows]

(* Serial Ledger: csv_serial_manager.py *)

Row(ts, serial, qr, letter) ==
    [TimestampImpression |-> ts, NumeroSerie |-> serial, CodeAleatoireQR |-> qr,
     TimestampTestDone |-> "", TimestampExpedition |-> "", type |-> letter,
     version |-> SOFTWARE_VERSION, sav_status |-> "False"]

\* rows whose NumeroSerie matches the numbering pattern
Numbered(L) == {i \in 1..Len(L) : LastSerialPattern(L[i].NumeroSerie) # None}

get_last_serial_from_csv(L) ==
    IF Numbered(L) = {} THEN None
    ELSE LET num(i) == int(LastSerialPattern(L[i].NumeroSerie))
             top    == CHOOSE i \in Numbered(L) :
                          /\ \A j \in Numbered(L) : num(j) <= num(i)
                          /\ \A j \in Numbered(L) : num(j) = num(i) => i <= j
         IN  L[top].NumeroSerie

\* variant: the increment is forgotten
generate_next_numeric_part_NoIncrement(L) ==
    LET last_serial == get_last_serial_from_csv(L)
        match == IF last_serial = None THEN None
                 ELSE TrailingDigitsPattern(last_serial)
        numeric_part_int == IF match = None THEN 0 ELSE int(match)
    IN  zfill(str(numeric_part_int), SERIAL_NUMERIC_LENGTH)

generate_next_numeric_part(L) ==
    LET last_serial == get_last_serial_from_csv(L)
        match == IF last_serial = None THEN None
                 ELSE TrailingDigitsPattern(last_serial)
        numeric_part_int == IF match = None THEN 0 ELSE int(match) + 1
    IN  zfill(str(numeric_part_int), SERIAL_NUMERIC_LENGTH)

add_initial_serial_to_csv(L, timestamp, numeric_part, material_letter, code_aleatoire_qr) ==
    Append(L, Row(timestamp, <<SERIAL_PREFIX_BASE>> \o XXX \o numeric_part,
                  code_aleatoire_qr, upper(material_letter)))

\* index of the first / last row of L whose NumeroSerie is s, 0 when none
Matching(L, s) == {i \in 1..Len(L) : L[i].NumeroSerie = s}
FirstMatch(L, s) == IF Matching(L, s) = {} THEN 0
                    ELSE CHOOSE i \in Matching(L, s) : \A j \in Matching(L, s) : i <= j
LastMatch(L, s) == IF Matching(L, s) = {} THEN 0
                   ELSE CHOOSE i \in Matching(L, s) : \A j \in Matching(L, s) : j <= i

\* variant: the status is compared without lower()
is_battery_in_sav_CaseSensitive(L, serial_number) ==
    LET i == FirstMatch(L, serial_number)
    IN  IF i = 0 THEN FALSE ELSE L[i].sav_status = "true"

\* the flag of the first row whose NumeroSerie is serial_number
is_battery_in_sav(L, serial_number) ==
    LET i == FirstMatch(L, serial_number)
    IN  IF i = 0 THEN FALSE ELSE lower(L[i].sav_status) = "true"

\* (found_serial, found_random_code, found_timestamp_impression) of the last
\* matching row, or None when a part is empty
get_details_for_reprint_from_csv(L, serial_number_to_find) ==
    LET i == LastMatch(L, serial_number_to_find)
    IN  IF i = 0 THEN None
        ELSE IF L[i].NumeroSerie # <<>> /\ L[i].CodeAleatoireQR # ""
                /\ L[i].TimestampImpression # ""
             THEN <<L[i].NumeroSerie, L[i].CodeAleatoireQR, L[i].TimestampImpression>>
             ELSE None

\* writable = FALSE: opening the file for writing raises
_update_main_csv_sav_status(L, numero_serie, sav_status_value, writable) ==
    LET rows_to_write == [i \in 1..Len(L) |->
                             IF L[i].NumeroSerie = numero_serie
                             THEN [L[i] EXCEPT !.sav_status = sav_status_value]
                             ELSE L[i]]
        updated_in_memory == Matching(L, numero_serie) # {}
    IN  IF updated_in_memory /\ writable
        THEN [rows |-> rows_to_write, ok |-> TRUE]
        ELSE [rows |-> L, ok |-> FALSE]

-----------------------------------------------------------------------------
(* SAV Sub-Ledger: csv_serial_manager.py *)
Faults == {"none", "sav_write", "main_write"}

SavRow(arrival, serial) ==
    [TimestampArrivee |-> arrival, NumeroSerie |-> serial, TimestampDepart |-> ""]

add_sav_entry(S, L, timestamp_arrivee, numero_serie, fault) ==
    IF fault = "sav_write" THEN [sav |-> S, main |-> L, ok |-> FALSE]
    ELSE LET upd == _update_main_csv_sav_status(L, numero_serie, "True",
                                                         fault # "main_write")
         IN  [sav |-> Append(S, SavRow(timestamp_arrivee, numero_serie)),
              main |-> upd.rows, ok |-> upd.ok]

\* variant: the loop stops at the first open row
update_sav_departure_FirstOnly(S, L, serial_number_to_update, timestamp_depart, fault) ==
    LET open == {i \in 1..Len(S) : S[i].NumeroSerie = serial_number_to_update
                                     /\ S[i].TimestampDepart = ""}
        first == IF open = {} THEN 0 ELSE CHOOSE i \in open : \A j \in open : i <= j
        rows_to_write == [i \in 1..Len(S) |->
                             IF i = first THEN [S[i] EXCEPT !.TimestampDepart = timestamp_depart]
                             ELSE S[i]]
    IN  IF open = {} \/ fault = "sav_write"
        THEN [sav |-> S, main |-> L, ok |-> FALSE]
        ELSE LET upd == _update_main_csv_sav_status(L, serial_number_to_update,
                                                    "False", fault # "main_write")
             IN  [sav |-> rows_to_write, main |-> upd.rows, ok |-> upd.ok]

update_sav_departure(S, L, serial_number_to_update, timestamp_depart, fault) ==
    LET hit(i) == S[i].NumeroSerie = serial_number_to_update /\ S[i].TimestampDepart = ""
        rows_to_write == [i \in 1..Len(S) |->
                             IF hit(i) THEN [S[i] EXCEPT !.TimestampDepart = timestamp_depart]
                             ELSE S[i]]
        updated_in_memory == \E i \in 1..Len(S) : hit(i)
    IN  IF ~updated_in_memory \/ fault = "sav_write"
        THEN [sav |-> S, main |-> L, ok |-> FALSE]
        ELSE LET upd == _update_main_csv_sav_status(L, serial_number_to_update,
                                                             "False", fault # "main_write")
             IN  [sav |-> rows_to_write, main |-> upd.rows, ok |-> upd.ok]

-----------------------------------------------------------------------------
NoResult == [operation |-> "none", success |-> FALSE]
NoCmd    == [op |-> "none", data |-> <<>>, fault |-> "none", tick |-> 0]
NoItem   == [kind |-> "none"]
\* the router thread between two messages; no rewrite of the ledger under way
RouterIdle == [pc |-> "idle"]
NoRewrite == [open |-> FALSE]
NoProbe  == [status |-> "unknown", ready |-> FALSE, detail |-> <<>>, attempts |-> 0]

\* data.get(key, "").strip() of a parsed payload
Get(data, key) == IF key \in DOMAIN data THEN data[key] ELSE ""

\* a serial absent from every ledger of the model
ForeignSerial == <<SERIAL_PREFIX_BASE, "2", "7", "1", "9", "9", "9", "9">>
SerialInputs == {ledger[i].NumeroSerie : i \in 1..Len(ledger)} \cup {ForeignSerial}

\* history record of a handled command; tick alternates at every command
Cmd(op, data, fault) ==
    [op |-> op, data |-> data, fault |-> fault, tick |-> 1 - lastCmd.tick]

_publish_operation_result(operation, success) ==
    published' = [operation |-> operation, success |-> success]

\* conditions in which a status query can find the device
DeviceConditions == {"ok", "media_out", "head_open", "no_response", "unreachable"}
Labels == {"v1", "main", "shipping"}

\* hexadecimal text
HexDigits == Digits \cup {"A", "B", "C", "D", "E", "F", "a", "b", "c", "d", "e", "f"}
HexVal(c) ==
    CASE c \in Digits -> DigitVal(c)
      [] c \in {"A", "a"} -> 10 [] c \in {"B", "b"} -> 11 [] c \in {"C", "c"} -> 12
      [] c \in {"D", "d"} -> 13 [] c \in {"E", "e"} -> 14 [] c \in {"F", "f"} -> 15
AllHex(s) == \A i \in 1..Len(s) : s[i] \in HexDigits
\* int(s, 16)
RECURSIVE int16(_)
int16(s) == IF s = <<>> THEN 0
            ELSE int16(SubSeq(s, 1, Len(s) - 1)) * 16 + HexVal(s[Len(s)])
\* a & b
RECURSIVE BitAnd(_, _)
BitAnd(a, b) == IF a = 0 \/ b = 0 THEN 0
                ELSE (a % 2) * (b % 2) + 2 * BitAnd(a \div 2, b \div 2)

\* PrinterConfig.ERROR_MASK_MEDIA_OUT, ERROR_MASK_HEAD_OPEN: bits of the G1 mask
ERROR_MASK_MEDIA_OUT == 1
ERROR_MASK_HEAD_OPEN == 4
\* for attempt in range(3)
PROBE_ATTEMPTS == 3

\* a line of the response, as the fields the pattern
\* ^\s*([A-Z]+):\s+(\d)\s+([0-9A-Fa-f]+)\s+([0-9A-Fa-f]+) looks for
HqesLine(section, flag, g2_hex, g1_hex) ==
    [section |-> section, flag |-> flag, g2 |-> g2_hex, g1 |-> g1_hex]
UpperWords == {"ERRORS", "WARNINGS", "PRINTER"}
PatternMatches(line) ==
    /\ line.section \in UpperWords
    /\ line.flag \in Digits
    /\ line.g2 # <<>> /\ AllHex(line.g2)
    /\ line.g1 # <<>> /\ AllHex(line.g1)

\* variant: the initial values are returned when no ERRORS line was found
_parse_hqes_response_Defaults(response) ==
    LET found == {i \in 1..Len(response) :
                     PatternMatches(response[i]) /\ response[i].section = "ERRORS"}
        last  == CHOOSE i \in found : \A j \in found : j <= i
    IN  IF found = {} THEN [error_flag |-> "0", error_g1 |-> zfill(<<"0">>, 8)]
        ELSE [error_flag |-> response[last].flag, error_g1 |-> zfill(response[last].g1, 8)]

\* variant: the mask kept is the first of the two masks of the line
_parse_hqes_response_FirstMask(response) ==
    LET found == {i \in 1..Len(response) :
                     PatternMatches(response[i]) /\ response[i].section = "ERRORS"}
        last  == CHOOSE i \in found : \A j \in found : j <= i
    IN  IF found = {} THEN None
        ELSE [error_flag |-> response[last].flag, error_g1 |-> zfill(response[last].g2, 8)]

\* (error_flag, error_g1) of the last ERRORS line the pattern matches, or None
_parse_hqes_response(response) ==
    LET found == {i \in 1..Len(response) :
                     PatternMatches(response[i]) /\ response[i].section = "ERRORS"}
        last  == CHOOSE i \in found : \A j \in found : j <= i
    IN  IF found = {} THEN None
        ELSE [error_flag |-> response[last].flag, error_g1 |-> zfill(response[last].g1, 8)]

StatusInfo(status, ready, detail, attempts) ==
    [status |-> status, ready |-> ready, detail |-> detail, attempts |-> attempts]

\* variant: the head-open bit is looked at before the media-out bit
DecodeErrors_HeadFirst(error_flag, error_g1_hex, n) ==
    IF error_flag = "0" THEN StatusInfo("OK", TRUE, <<>>, n)
    ELSE LET error_g1_int == int16(error_g1_hex)
         IN  IF BitAnd(error_g1_int, ERROR_MASK_HEAD_OPEN) # 0
             THEN StatusInfo("HEAD_OPEN", FALSE, <<>>, n)
             ELSE IF BitAnd(error_g1_int, ERROR_MASK_MEDIA_OUT) # 0
             THEN StatusInfo("MEDIA_OUT", FALSE, <<>>, n)
             ELSE StatusInfo("ERROR_UNKNOWN", FALSE, error_g1_hex, n)

\* the status decided from the ERRORS flag and the G1 mask
DecodeErrors(error_flag, error_g1_hex, n) ==
    IF error_flag = "0" THEN StatusInfo("OK", TRUE, <<>>, n)
    ELSE LET error_g1_int == int16(error_g1_hex)
         IN  IF BitAnd(error_g1_int, ERROR_MASK_MEDIA_OUT) # 0
             THEN StatusInfo("MEDIA_OUT", FALSE, <<>>, n)
             ELSE IF BitAnd(error_g1_int, ERROR_MASK_HEAD_OPEN) # 0
             THEN StatusInfo("HEAD_OPEN", FALSE, <<>>, n)
             ELSE StatusInfo("ERROR_UNKNOWN", FALSE, error_g1_hex, n)

\* what one connection attempt meets: conn is "ok", "unreachable" (socket.error
\* "Network is unreachable") or "refused" (another socket.error); recv tells
\* how the read ended ("etx", "closed", "timeout"); lines is the text received
Outcome(conn, recv, lines) == [conn |-> conn, recv |-> recv, lines |-> lines]

\* the status returned once the connection of attempt number n is open
Answer(o, n) ==
    IF o.lines = <<>>
    THEN StatusInfo("ERROR_COMM", FALSE, <<>>, n)
    ELSE LET parsed_data == _parse_hqes_response(o.lines)
         IN  IF parsed_data = None
             THEN StatusInfo("ERROR_UNKNOWN", FALSE, <<>>, n)
             ELSE DecodeErrors(parsed_data.error_flag, parsed_data.error_g1, n)

RECURSIVE ProbeAttempt(_, _)
ProbeAttempt(d, attempt_no) ==
    IF attempt_no >= PROBE_ATTEMPTS
    THEN StatusInfo("ERROR_COMM", FALSE, <<>>, attempt_no)
    ELSE LET o == d[attempt_no + 1]
         IN  IF o.conn = "unreachable"
             THEN IF attempt_no < 2 THEN ProbeAttempt(d, attempt_no + 1)
                  ELSE StatusInfo("ERROR_COMM", FALSE, <<>>, attempt_no + 1)
             ELSE IF o.conn = "refused"
             THEN StatusInfo("ERROR_COMM", FALSE, <<>>, attempt_no + 1)
             ELSE Answer(o, attempt_no + 1)

\* variant: no new attempt after "Network is unreachable"
_check_printer_status_NoRetry(d) ==
    IF d[1].conn = "ok" THEN Answer(d[1], 1)
    ELSE StatusInfo("ERROR_COMM", FALSE, <<>>, 1)

\* status_info of a status query on a device that meets attempt i with d[i];
\* attempts counts the connections opened
_check_printer_status(d) == ProbeAttempt(d, 0)

ErrorsLine(flag, g1_hex) == HqesLine("ERRORS", flag, <<"0">>, g1_hex)
Always(o) == [i \in 1..PROBE_ATTEMPTS |-> o]
\* the device of each condition of DeviceConditions
Device(c) ==
    CASE c = "ok"          -> Always(Outcome("ok", "etx", <<ErrorsLine("0", <<"0">>)>>))
      [] c = "media_out"   -> Always(Outcome("ok", "etx", <<ErrorsLine("1", <<"1">>)>>))
      [] c = "head_open"   -> Always(Outcome("ok", "etx", <<ErrorsLine("1", <<"4">>)>>))
      [] c = "no_response" -> Always(Outcome("ok", "closed", <<>>))
      [] c = "unreachable" -> Always(Outcome("unreachable", "closed", <<>>))

Outcomes ==
    { Outcome("unreachable", "closed", <<>>),
      Outcome("refused", "closed", <<>>),
      Outcome("ok", "timeout", <<>>),
      Outcome("ok", "closed", <<>>),
      Outcome("ok", "etx", <<ErrorsLine("0", <<"0">>)>>),
      Outcome("ok", "etx", <<ErrorsLine("1", <<"1">>)>>),
      Outcome("ok", "etx", <<ErrorsLine("1", <<"4">>)>>),
      Outcome("ok", "etx", <<ErrorsLine("1", <<"0", "5">>)>>),
      Outcome("ok", "etx", <<ErrorsLine("2", <<"a">>)>>),
      Outcome("ok", "etx", <<ErrorsLine("0", <<"5">>)>>),
      Outcome("ok", "etx", <<HqesLine("WARNINGS", "1", <<"0">>, <<"1">>)>>),
      Outcome("ok", "etx", <<HqesLine("ERRORS", "1", <<"1">>, <<"0">>)>>),
      Outcome("ok", "etx", <<HqesLine("ERRORS", "1", <<"4">>, <<"1">>)>>),
      Outcome("ok", "etx", <<ErrorsLine("0", <<"0">>),
                             HqesLine("WARNINGS", "1", <<"5">>, <<"5">>)>>),
      Outcome("ok", "etx", <<HqesLine("WARNINGS", "0", <<"0">>, <<"0">>),
                             ErrorsLine("1", <<"4">>)>>),
      Outcome("ok", "timeout", <<ErrorsLine("1", <<"1">>), HqesLine("errors", "1", <<"0">>, <<"4">>),
                                 ErrorsLine("0", <<"0">>)>>) }
DeviceScripts == [1..PROBE_ATTEMPTS -> Outcomes]

\* a device that may be in any condition and on which every transmission may fail
FreeDevice == [probe |-> {Device(c) : c \in DeviceConditions},
               send |-> [l \in Labels |-> BOOLEAN]]

Init ==
    /\ ledger = <<>>
    /\ savLedger = <<>>
    /\ print_queue = <<>>
    /\ published = NoResult
    /\ lastCmd = NoCmd
    /\ enqueued = <<>>
    /\ removed = <<>>
    /\ nextId = 1
    /\ wpc = "peek"
    /\ item_to_print = NoItem
    /\ success_v1 = FALSE
    /\ success_main = FALSE
    /\ success_shipping = FALSE
    /\ status_ready = FALSE
    /\ sent = {}
    /\ attempt = {}
    /\ tries = 0
    /\ env = FreeDevice
    /\ probe_log = NoProbe
    /\ queue_lock = "free"
    /\ router = RouterIdle
    /\ csv_rewrite = NoRewrite
    /\ headers = HeadersPresent
    /\ current_state = "IDLE"
    /\ validated_model = None
    /\ temp_serial_to_validate = None
    /\ timeout_timer_id = FALSE
    /\ scheduled_timeouts = 0
    /\ delayed_resets = 0
    /\ bus = <<>>
    /\ serials_for_expedition = <<>>
    /\ expedition_mode_active = FALSE
    /\ serial_for_sav = None
    /\ serial_to_reprint = None
    /\ qr_text_to_print = None
    /\ qr_content_to_encode = None

\* Creation of a record through the ledger interface: the next numeric part
\* is generated and the initial row appended (io = FALSE: the append raises
\* IOError).  The caller chooses the material letter; the code is random.
CreateInitialSerial(letters, codes) ==
    /\ Len(ledger) < MaxRecords
    /\ \E letter \in letters, qr \in codes, io \in BOOLEAN :
         LET numeric_part == generate_next_numeric_part(ledger)
         IN  /\ ledger' = IF io THEN add_initial_serial_to_csv(ledger, "t1", numeric_part, letter, qr)
                          ELSE ledger
             /\ lastCmd' = Cmd("ledger_create",
                                [material_letter |-> letter, numeric_part |-> numeric_part],
                                IF io THEN "none" ELSE "main_write")
    /\ published' = NoResult
    /\ UNCHANGED <<savLedger, print_queue, queueHist, workerVars, deviceVars, syncVars, scanVars>>

\* payloads of the SAV topics: a field may be missing
SavEntryPayloads ==
    {[serial_number |-> s, timestamp_sav_arrivee |-> t] : s \in SerialInputs, t \in ArrivalInputs}
      \cup {[serial_number |-> s] : s \in SerialInputs}
SavDeparturePayloads ==
    {[serial_number |-> s, timestamp_depart |-> t] : s \in SerialInputs, t \in DepartInputs}
      \cup {[timestamp_depart |-> t] : t \in DepartInputs}

\* _handle_sav_entry on the parsed payload data
sav_entry(data, fault) ==
      LET serial_number == Get(data, "serial_number")
          timestamp_arrivee == Get(data, "timestamp_sav_arrivee")
          details == get_details_for_reprint_from_csv(ledger, serial_number)
          r == add_sav_entry(savLedger, ledger, timestamp_arrivee, serial_number, fault)
      IN  /\ lastCmd' = Cmd("sav_entry", data, fault)
          /\ IF serial_number = "" \/ timestamp_arrivee = ""
             THEN /\ _publish_operation_result("sav_entry", FALSE)
                  /\ UNCHANGED ledgerVars
             ELSE IF details = None
             THEN /\ _publish_operation_result("sav_entry", FALSE)
                  /\ UNCHANGED ledgerVars
             ELSE IF is_battery_in_sav(ledger, serial_number)
             THEN /\ _publish_operation_result("sav_entry", FALSE)
                  /\ UNCHANGED ledgerVars
             ELSE /\ Len(savLedger) < MaxSavRows
                  /\ savLedger' = r.sav
                  /\ ledger' = r.main
                  /\ _publish_operation_result("sav_entry", r.ok)
          /\ UNCHANGED <<print_queue, queueHist>>

_handle_sav_entry ==
    \E data \in SavEntryPayloads, fault \in Faults :
        /\ sav_entry(data, fault)
        /\ UNCHANGED <<workerVars, deviceVars, syncVars, scanVars>>

\* _handle_sav_departure on the parsed payload data
sav_departure(data, fault) ==
      LET serial_number == Get(data, "serial_number")
          timestamp_depart == Get(data, "timestamp_depart")
          r == update_sav_departure(savLedger, ledger, serial_number, timestamp_depart, fault)
      IN  /\ lastCmd' = Cmd("sav_departure", data, fault)
          /\ IF serial_number = "" \/ timestamp_depart = ""
             THEN /\ _publish_operation_result("sav_departure", FALSE)
                  /\ UNCHANGED ledgerVars
             ELSE IF ~is_battery_in_sav(ledger, serial_number)
             THEN /\ _publish_operation_result("sav_departure", FALSE)
                  /\ UNCHANGED ledgerVars
             ELSE /\ savLedger' = r.sav
                  /\ ledger' = r.main
                  /\ _publish_operation_result("sav_departure", r.ok)
          /\ UNCHANGED <<print_queue, queueHist>>

\* variant: the departure is attempted without asking is_battery_in_sav
_handle_sav_departure_NoCheck ==
    \E data \in SavDeparturePayloads, fault \in Faults :
      LET serial_number == Get(data, "serial_number")
          timestamp_depart == Get(data, "timestamp_depart")
          r == update_sav_departure(savLedger, ledger, serial_number, timestamp_depart, fault)
      IN  /\ lastCmd' = Cmd("sav_departure", data, fault)
          /\ IF serial_number = "" \/ timestamp_depart = ""
             THEN /\ _publish_operation_result("sav_departure", FALSE)
                  /\ UNCHANGED ledgerVars
             ELSE /\ savLedger' = r.sav
                  /\ ledger' = r.main
                  /\ _publish_operation_result("sav_departure", r.ok)
          /\ UNCHANGED <<print_queue, queueHist, workerVars, deviceVars, syncVars, scanVars>>

_handle_sav_departure ==
    \E data \in SavDeparturePayloads, fault \in Faults :
        /\ sav_departure(data, fault)
        /\ UNCHANGED <<workerVars, deviceVars, syncVars, scanVars>>

\* names CSVSerialManager defines (csv_serial_manager.py)
CSVSerialManagerMethods ==
    {"generate_random_code", "initialize_serial_csv", "initialize_sav_csv",
     "get_last_serial_from_csv", "validate_and_update_serial", "is_battery_in_sav",
     "add_sav_entry", "update_sav_departure", "generate_next_numeric_part",
     "add_initial_serial_to_csv", "update_csv_with_test_done_timestamp",
     "update_csv_with_shipping_timestamp", "_update_main_csv_sav_status",
     "get_sav_stats", "get_details_for_reprint_from_csv",
     "update_serial_for_downgrade", "search_battery_for_reprint"}

CreatePayloads == {[material_letter |-> "B"], [unit_type |-> "B"], [checker_name |-> "B"]}

\* CREATE handler.  After the checker_name test the handler calls
\* CSVSerialManager.generate_next_serial_number and add_serial_to_csv; the
\* class defines neither, the AttributeError is caught by the handler's
\* "except Exception" and a failure result is published.
create(data) ==
      LET checker_name == Get(data, "checker_name")
      IN  /\ lastCmd' = Cmd("create", data, "none")
          /\ IF checker_name = ""
             THEN _publish_operation_result("create", FALSE)
             ELSE /\ {"generate_next_serial_number", "add_serial_to_csv"}
                        \cap CSVSerialManagerMethods = {}
                  /\ _publish_operation_result("create", FALSE)
          /\ UNCHANGED <<ledgerVars, print_queue, queueHist>>

_handle_create ==
    \E data \in CreatePayloads :
        /\ create(data)
        /\ UNCHANGED <<workerVars, deviceVars, syncVars, scanVars>>

NextLedger ==
    \/ CreateInitialSerial({"d"}, {"q1"})
    \/ _handle_create
    \/ _handle_sav_entry
    \/ _handle_sav_departure

SpecLedger == Init /\ [][NextLedger]_vars

-----------------------------------------------------------------------------
(* Print queue and worker: printer.py *)

\* "%d/%m/%Y" of an ISO timestamp
DateOf(ts) == CASE ts = "t1" -> "01/01/2025" [] ts = "t2" -> "02/01/2025" [] OTHER -> "today"

Job(serial_number, random_code, fabrication_date, id) ==
    [kind |-> "PRINT_ALL_THREE", serial |-> serial_number, qr |-> random_code,
     date |-> fabrication_date, id |-> id]
\* the tuple the program stores and compares; id is history only
JobTuple(j) == IF j.kind = "none" THEN <<>> ELSE <<j.kind, j.serial, j.qr, j.date>>
Ids(q) == [i \in 1..Len(q) |-> q[i].id]

\* deque operations
append(q, j) == Append(q, j)
peek_Last(q) == q[Len(q)]
peek(q) == q[1]
popleft_Right(q) == SubSeq(q, 1, Len(q) - 1)
popleft(q) == Tail(q)

ReprintPayloads == SerialInputs \cup {<<>>}

\* _handle_reprint on the stripped payload text
reprint(serial_number) ==
      LET details == get_details_for_reprint_from_csv(ledger, serial_number)
      IN  /\ lastCmd' = Cmd("reprint", [serial_number |-> serial_number], "none")
          /\ IF serial_number = <<>> \/ details = None
             THEN /\ _publish_operation_result("reprint", FALSE)
                  /\ UNCHANGED <<print_queue, queueHist>>
             ELSE /\ Len(enqueued) < MaxQueue
                  /\ print_queue' = append(print_queue,
                                           Job(serial_number, details[2], DateOf(details[3]), nextId))
                  /\ enqueued' = Append(enqueued, nextId)
                  /\ nextId' = nextId + 1
                  /\ removed' = removed
                  /\ _publish_operation_result("reprint", TRUE)
          /\ UNCHANGED ledgerVars

_handle_reprint ==
    \E serial_number \in ReprintPayloads :
        /\ reprint(serial_number)
        /\ UNCHANGED <<workerVars, deviceVars, syncVars, scanVars>>

(* Command Router: printer.py, _on_connect / _on_message and the handlers
   of the shipping update and of the custom QR label *)
\* topics of PrinterConfig, the ones the scan session publishes on
MQTT_TOPIC_CREATE_LABEL == "printer/create_label"
MQTT_TOPIC_REQUEST_FULL_REPRINT == "printer/request_full_reprint"
MQTT_TOPIC_UPDATE_SHIPPING_TIMESTAMP == "printer/update_shipping_timestamp"
MQTT_TOPIC_SAV_ENTRY == "printer/sav_entry"
MQTT_TOPIC_SAV_DEPARTURE == "printer/sav_departure"
MQTT_TOPIC_CREATE_QR == "printer/create_qr"

\* the topics _on_connect subscribes to
Subscribed ==
    {MQTT_TOPIC_CREATE_LABEL, MQTT_TOPIC_REQUEST_FULL_REPRINT,
     MQTT_TOPIC_UPDATE_SHIPPING_TIMESTAMP, MQTT_TOPIC_SAV_ENTRY,
     MQTT_TOPIC_SAV_DEPARTURE, MQTT_TOPIC_CREATE_QR}

\* a payload is the text of a JSON object (json.dumps of a dict) or any other text
json_dumps(data) == [kind |-> "json", data |-> data]
PlainText(t) == [kind |-> "text", text |-> t]
\* msg.payload.decode("utf-8"): the text of a JSON object opens with a brace
payload_str(p) == IF p.kind = "text" THEN p.text ELSE <<"{", "}">>
\* json.loads succeeds on the text of a JSON object and raises JSONDecodeError
\* on a serial, on an empty text, on a text cut short
JSONDecodeError(p) == p.kind # "json"
json_loads(p) == p.data
Message(topic, payload) == [topic |-> topic, payload |-> payload]

\* variant: only the rows that were updated are written back
update_csv_with_shipping_timestamp_MatchesOnly(L, serial_number_to_update, timestamp_shipping_iso, writable) ==
    LET rows_to_write == SelectSeq([i \in 1..Len(L) |->
                                       [L[i] EXCEPT !.TimestampExpedition = timestamp_shipping_iso]],
                                   LAMBDA row : row.NumeroSerie = serial_number_to_update)
        updated_in_memory == Matching(L, serial_number_to_update) # {}
    IN  IF updated_in_memory /\ writable
        THEN [rows |-> rows_to_write, ok |-> TRUE]
        ELSE [rows |-> L, ok |-> FALSE]

update_csv_with_shipping_timestamp(L, serial_number_to_update, timestamp_shipping_iso, writable) ==
    LET rows_to_write == [i \in 1..Len(L) |->
                             IF L[i].NumeroSerie = serial_number_to_update
                             THEN [L[i] EXCEPT !.TimestampExpedition = timestamp_shipping_iso]
                             ELSE L[i]]
        updated_in_memory == Matching(L, serial_number_to_update) # {}
    IN  IF updated_in_memory /\ writable
        THEN [rows |-> rows_to_write, ok |-> TRUE]
        ELSE [rows |-> L, ok |-> FALSE]

\* variant: the timestamp is written one column to the left
update_csv_with_test_done_timestamp_Column2(L, serial_number_to_update, timestamp_done, writable) ==
    LET rows == [i \in 1..Len(L) |->
                    IF L[i].NumeroSerie = serial_number_to_update
                    THEN [L[i] EXCEPT !.CodeAleatoireQR = timestamp_done,
                                      !.version = SOFTWARE_VERSION]
                    ELSE L[i]]
        updated == Matching(L, serial_number_to_update) # {}
    IN  IF updated /\ writable
        THEN [rows |-> rows, ok |-> TRUE]
        ELSE [rows |-> L, ok |-> FALSE]

\* row[3] and row[6] of every row whose NumeroSerie matches
update_csv_with_test_done_timestamp(L, serial_number_to_update, timestamp_done, writable) ==
    LET rows == [i \in 1..Len(L) |->
                    IF L[i].NumeroSerie = serial_number_to_update
                    THEN [L[i] EXCEPT !.TimestampTestDone = timestamp_done,
                                      !.version = SOFTWARE_VERSION]
                    ELSE L[i]]
        updated == Matching(L, serial_number_to_update) # {}
    IN  IF updated /\ writable
        THEN [rows |-> rows, ok |-> TRUE]
        ELSE [rows |-> L, ok |-> FALSE]

\* _handle_expedition on the parsed payload data
expedition(data, fault) ==
      LET serial_number == Get(data, "serial_number")
          timestamp_expedition == Get(data, "timestamp_expedition")
          r == update_csv_with_shipping_timestamp(ledger, serial_number, timestamp_expedition,
                                                  fault # "main_write")
      IN  /\ lastCmd' = Cmd("expedition", data, fault)
          /\ IF serial_number = "" \/ timestamp_expedition = ""
             THEN /\ _publish_operation_result("expedition", FALSE)
                  /\ UNCHANGED ledger
             ELSE /\ ledger' = r.rows
                  /\ _publish_operation_result("expedition", r.ok)
          /\ UNCHANGED <<savLedger, print_queue, queueHist>>

\* _handle_create_qr on the parsed payload data: the label is sent to the
\* device and the outcome is logged, nothing is published
create_qr(data) ==
      LET qr_text == Get(data, "qr_text")
      IN  /\ IF qr_text = ""
             THEN lastCmd' = Cmd("create_qr", data, "none")
             ELSE \E success \in BOOLEAN :
                     lastCmd' = Cmd("create_qr", data, IF success THEN "none" ELSE "device")
          /\ UNCHANGED <<ledgerVars, print_queue, queueHist, published>>

\* except json.JSONDecodeError of the handler of operation
InvalidJson(operation, msg) ==
    /\ lastCmd' = Cmd(operation, [invalid_json |-> msg.payload], "none")
    /\ IF operation = "create_qr"
       THEN UNCHANGED published
       ELSE _publish_operation_result(operation, FALSE)
    /\ UNCHANGED <<ledgerVars, print_queue, queueHist>>

_on_message(msg, fault) ==
    LET topic == msg.topic
        p == msg.payload
    IN  IF topic = MQTT_TOPIC_CREATE_LABEL
        THEN IF JSONDecodeError(p) THEN InvalidJson("create", msg) ELSE create(json_loads(p))
        ELSE IF topic = MQTT_TOPIC_REQUEST_FULL_REPRINT
        THEN reprint(strip(payload_str(p)))
        ELSE IF topic = MQTT_TOPIC_UPDATE_SHIPPING_TIMESTAMP
        THEN IF JSONDecodeError(p) THEN InvalidJson("expedition", msg)
             ELSE expedition(json_loads(p), fault)
        ELSE IF topic = MQTT_TOPIC_SAV_ENTRY
        THEN IF JSONDecodeError(p) THEN InvalidJson("sav_entry", msg)
             ELSE sav_entry(json_loads(p), fault)
        ELSE IF topic = MQTT_TOPIC_SAV_DEPARTURE
        THEN IF JSONDecodeError(p) THEN InvalidJson("sav_departure", msg)
             ELSE sav_departure(json_loads(p), fault)
        ELSE IF topic = MQTT_TOPIC_CREATE_QR
        THEN IF JSONDecodeError(p) THEN InvalidJson("create_qr", msg)
             ELSE create_qr(json_loads(p))
        ELSE \* Topic non géré
             /\ lastCmd' = Cmd("unhandled", [topic |-> topic], "none")
             /\ UNCHANGED <<ledgerVars, print_queue, queueHist, published>>

OneRecord == add_initial_serial_to_csv(<<>>, "t1", <<"0", "0", "0", "0">>, "A", "q1")

\* what a client of the bus can send to the router
ExpeditionPayloads ==
    {[serial_number |-> s, timestamp_expedition |-> t] : s \in SerialInputs, t \in DepartInputs}
      \cup {[serial_number |-> s] : s \in SerialInputs}
QrPayloads == {[qr_text |-> "q1"], [display_text |-> "q1", qr_content |-> "q1"]}
Truncated == PlainText(<<"{">>)
RouterMessages ==
    {Message(MQTT_TOPIC_CREATE_LABEL, json_dumps(d)) : d \in CreatePayloads}
      \cup {Message(MQTT_TOPIC_REQUEST_FULL_REPRINT, PlainText(t)) : t \in ReprintPayloads}
      \cup {Message(MQTT_TOPIC_UPDATE_SHIPPING_TIMESTAMP, json_dumps(d)) : d \in ExpeditionPayloads}
      \cup {Message(MQTT_TOPIC_SAV_ENTRY, json_dumps(d)) : d \in SavEntryPayloads}
      \cup {Message(MQTT_TOPIC_SAV_DEPARTURE, json_dumps(d)) : d \in SavDeparturePayloads}
      \cup {Message(MQTT_TOPIC_CREATE_QR, json_dumps(d)) : d \in QrPayloads}
      \cup {Message(t, Truncated) : t \in Subscribed \cup {"printer/status"}}

\* the router receives a message
RouterReceive ==
    \E msg \in RouterMessages, fault \in Faults :
        /\ _on_message(msg, fault)
        /\ UNCHANGED <<workerVars, deviceVars, syncVars, scanVars>>

InitRouter ==
    /\ ledger = OneRecord
    /\ savLedger = <<>>
    /\ print_queue = <<>>
    /\ published = NoResult
    /\ lastCmd = NoCmd
    /\ enqueued = <<>>
    /\ removed = <<>>
    /\ nextId = 1
    /\ wpc = "peek"
    /\ item_to_print = NoItem
    /\ success_v1 = FALSE
    /\ success_main = FALSE
    /\ success_shipping = FALSE
    /\ status_ready = FALSE
    /\ sent = {}
    /\ attempt = {}
    /\ tries = 0
    /\ env = FreeDevice
    /\ probe_log = NoProbe
    /\ queue_lock = "free"
    /\ router = RouterIdle
    /\ csv_rewrite = NoRewrite
    /\ headers = HeadersPresent
    /\ current_state = "IDLE"
    /\ validated_model = None
    /\ temp_serial_to_validate = None
    /\ timeout_timer_id = FALSE
    /\ scheduled_timeouts = 0
    /\ delayed_resets = 0
    /\ bus = <<>>
    /\ serials_for_expedition = <<>>
    /\ expedition_mode_active = FALSE
    /\ serial_for_sav = None
    /\ serial_to_reprint = None
    /\ qr_text_to_print = None
    /\ qr_content_to_encode = None

SpecRouter == InitRouter /\ [][RouterReceive]_vars

\* status_info = self._check_printer_status() of the status publisher
_publish_printer_status ==
    \E d \in env.probe :
        /\ probe_log' = _check_printer_status(d)
        /\ lastCmd' = Cmd("status", [device |-> d], "none")
        /\ UNCHANGED <<ledgerVars, print_queue, published, queueHist, workerVars, env, scanVars,
                       syncVars>>

\* the service in front of one device, whatever it answers
InitProbe ==
    /\ ledger = <<>>
    /\ savLedger = <<>>
    /\ print_queue = <<>>
    /\ published = NoResult
    /\ lastCmd = NoCmd
    /\ enqueued = <<>>
    /\ removed = <<>>
    /\ nextId = 1
    /\ wpc = "peek"
    /\ item_to_print = NoItem
    /\ success_v1 = FALSE
    /\ success_main = FALSE
    /\ success_shipping = FALSE
    /\ status_ready = FALSE
    /\ sent = {}
    /\ attempt = {}
    /\ tries = 0
    /\ env \in {[probe |-> {d}, send |-> [l \in Labels |-> BOOLEAN]] : d \in DeviceScripts}
    /\ probe_log = NoProbe
    /\ queue_lock = "free"
    /\ router = RouterIdle
    /\ csv_rewrite = NoRewrite
    /\ headers = HeadersPresent
    /\ current_state = "IDLE"
    /\ validated_model = None
    /\ temp_serial_to_validate = None
    /\ timeout_timer_id = FALSE
    /\ scheduled_timeouts = 0
    /\ delayed_resets = 0
    /\ bus = <<>>
    /\ serials_for_expedition = <<>>
    /\ expedition_mode_active = FALSE
    /\ serial_for_sav = None
    /\ serial_to_reprint = None
    /\ qr_text_to_print = None
    /\ qr_content_to_encode = None

SpecProbe == InitProbe /\ [][_publish_printer_status]_vars

\* return value of _print_all_three_labels
_print_all_three_labels_Any(v1, main, shipping) == v1 \/ main \/ shipping
_print_all_three_labels(v1, main, shipping) == v1 /\ main /\ shipping

\* with self.queue_lock: item_to_print = self.print_queue[0] if the queue is not empty
WorkerPeek ==
    /\ wpc = "peek"
    /\ item_to_print' = IF print_queue # <<>> THEN peek(print_queue) ELSE NoItem
    /\ wpc' = IF print_queue # <<>> THEN "probe" ELSE "sleep"
    /\ success_v1' = FALSE /\ success_main' = FALSE /\ success_shipping' = FALSE
    /\ status_ready' = FALSE
    /\ attempt' = {}
    /\ UNCHANGED <<ledgerVars, print_queue, published, lastCmd, queueHist, sent, tries,
                   deviceVars, syncVars, scanVars>>

\* time.sleep(...) at the end of a cycle
WorkerSleep ==
    /\ wpc = "sleep"
    /\ wpc' = "peek"
    /\ UNCHANGED <<ledgerVars, print_queue, published, lastCmd, queueHist, item_to_print,
                   success_v1, success_main, success_shipping, status_ready, sent,
                   attempt, tries, deviceVars, syncVars, scanVars>>

\* variant: the item is processed whatever the status query answered
WorkerProbe_IgnoreStatus ==
    /\ wpc = "probe"
    /\ \E d \in env.probe :
         LET status_info == _check_printer_status(d)
         IN  /\ status_ready' = status_info.ready
             /\ wpc' = "print_v1"
             /\ UNCHANGED <<success_v1, success_main, success_shipping>>
    /\ UNCHANGED <<ledgerVars, print_queue, published, lastCmd, queueHist, item_to_print,
                   sent, attempt, tries, deviceVars, syncVars, scanVars>>

\* status_info = self._check_printer_status(); _process_print_item returns
\* True at once for an item that is not a PRINT_ALL_THREE tuple
WorkerProbe ==
    /\ wpc = "probe"
    /\ \E d \in env.probe :
         LET status_info == _check_printer_status(d)
         IN  /\ status_ready' = status_info.ready
             /\ IF ~status_info.ready THEN
                   /\ wpc' = "sleep"
                   /\ UNCHANGED <<success_v1, success_main, success_shipping>>
                ELSE IF item_to_print.kind # "PRINT_ALL_THREE" THEN
                   /\ wpc' = "finish"
                   /\ success_v1' = TRUE /\ success_main' = TRUE /\ success_shipping' = TRUE
                ELSE
                   /\ wpc' = "print_v1"
                   /\ UNCHANGED <<success_v1, success_main, success_shipping>>
    /\ UNCHANGED <<ledgerVars, print_queue, published, lastCmd, queueHist, item_to_print,
                   sent, attempt, tries, deviceVars, syncVars, scanVars>>

\* success_v1 = self._print_v1_label(...)
WorkerPrintV1 ==
    /\ wpc = "print_v1"
    /\ \E ok \in env.send["v1"] : success_v1' = ok
    /\ sent' = sent \cup {item_to_print.id}
    /\ attempt' = attempt \cup {"v1"}
    /\ wpc' = "print_main"
    /\ UNCHANGED <<ledgerVars, print_queue, published, lastCmd, queueHist, item_to_print,
                   success_main, success_shipping, status_ready, tries, deviceVars, syncVars, scanVars>>

\* success_main = self._print_main_label(...)
WorkerPrintMain ==
    /\ wpc = "print_main"
    /\ \E ok \in env.send["main"] : success_main' = ok
    /\ sent' = sent \cup {item_to_print.id}
    /\ attempt' = attempt \cup {"main"}
    /\ wpc' = "print_shipping"
    /\ UNCHANGED <<ledgerVars, print_queue, published, lastCmd, queueHist, item_to_print,
                   success_v1, success_shipping, status_ready, tries, deviceVars, syncVars, scanVars>>

\* success_shipping = self._print_shipping_label(...)
WorkerPrintShipping ==
    /\ wpc = "print_shipping"
    /\ \E ok \in env.send["shipping"] : success_shipping' = ok
    /\ sent' = sent \cup {item_to_print.id}
    /\ attempt' = attempt \cup {"shipping"}
    /\ wpc' = "finish"
    /\ UNCHANGED <<ledgerVars, print_queue, published, lastCmd, queueHist, item_to_print,
                   success_v1, success_main, status_ready, tries, deviceVars, syncVars, scanVars>>

\* if success: with self.queue_lock: popleft when the head still equals the item
WorkerFinish ==
    /\ wpc = "finish"
    /\ LET success == _print_all_three_labels(success_v1, success_main, success_shipping)
       IN  IF success /\ print_queue # <<>>
                      /\ JobTuple(print_queue[1]) = JobTuple(item_to_print)
           THEN /\ print_queue' = popleft(print_queue)
                /\ removed' = removed \o SubSeq(Ids(print_queue), 1,
                                                Len(print_queue) - Len(popleft(print_queue)))
           ELSE UNCHANGED <<print_queue, removed>>
    /\ tries' = IF tries < MaxTries THEN tries + 1 ELSE tries
    /\ wpc' = "sleep"
    /\ UNCHANGED <<ledgerVars, published, lastCmd, enqueued, nextId, item_to_print,
                   success_v1, success_main, success_shipping, status_ready, sent,
                   attempt, deviceVars, syncVars, scanVars>>

Worker ==
    \/ WorkerPeek \/ WorkerSleep \/ WorkerProbe
    \/ WorkerPrintV1 \/ WorkerPrintMain \/ WorkerPrintShipping \/ WorkerFinish

\* a ledger after two creations
TwoRecords ==
    add_initial_serial_to_csv(
        add_initial_serial_to_csv(<<>>, "t1", <<"0", "0", "0", "0">>, "A", "q1"),
        "t2", <<"0", "0", "0", "1">>, "d", "q2")

InitWorker ==
    /\ ledger = TwoRecords
    /\ savLedger = <<>>
    /\ print_queue = <<>>
    /\ published = NoResult
    /\ lastCmd = NoCmd
    /\ enqueued = <<>>
    /\ removed = <<>>
    /\ nextId = 1
    /\ wpc = "peek"
    /\ item_to_print = NoItem
    /\ success_v1 = FALSE
    /\ success_main = FALSE
    /\ success_shipping = FALSE
    /\ status_ready = FALSE
    /\ sent = {}
    /\ attempt = {}
    /\ tries = 0
    /\ env = FreeDevice
    /\ probe_log = NoProbe
    /\ queue_lock = "free"
    /\ router = RouterIdle
    /\ csv_rewrite = NoRewrite
    /\ headers = HeadersPresent
    /\ current_state = "IDLE"
    /\ validated_model = None
    /\ temp_serial_to_validate = None
    /\ timeout_timer_id = FALSE
    /\ scheduled_timeouts = 0
    /\ delayed_resets = 0
    /\ bus = <<>>
    /\ serials_for_expedition = <<>>
    /\ expedition_mode_active = FALSE
    /\ serial_for_sav = None
    /\ serial_to_reprint = None
    /\ qr_text_to_print = None
    /\ qr_content_to_encode = None

NextWorker == _handle_reprint \/ Worker

SpecWorker == InitWorker /\ [][NextWorker]_vars

\* a device that answers Ready to every status query and takes every label
GoodDevice == [probe |-> {Device("ok")}, send |-> [l \in Labels |-> {TRUE}]]

\* the device is repaired: from now on it is a GoodDevice
DeviceRecovers ==
    /\ env # GoodDevice
    /\ env' = GoodDevice
    /\ UNCHANGED <<ledgerVars, print_queue, published, lastCmd, queueHist, workerVars,
                   probe_log, scanVars, syncVars>>

NextRecovery == _handle_reprint \/ Worker \/ DeviceRecovers

\* the step in which the status query of the worker returns, whatever it
\* answers: every socket operation of _check_printer_status has a timeout.
\* Every WorkerProbe step is such a step, and it is enabled exactly when
\* WorkerProbe is.
ProbeReturns ==
    /\ wpc = "probe"
    /\ wpc' \in {"sleep", "finish", "print_v1"}
    /\ status_ready' \in BOOLEAN
    /\ \/ UNCHANGED <<success_v1, success_main, success_shipping>>
       \/ success_v1' = TRUE /\ success_main' = TRUE /\ success_shipping' = TRUE
    /\ UNCHANGED <<ledgerVars, print_queue, published, lastCmd, queueHist, item_to_print,
                   sent, attempt, tries, deviceVars, syncVars, scanVars>>

\* the worker is a thread of its own whose loop never ends: whichever step
\* of the loop it is at, it takes it
SpecRecovery ==
    /\ InitWorker /\ [][NextRecovery]_vars
    /\ WF_vars(WorkerPeek) /\ WF_vars(WorkerSleep) /\ WF_vars(ProbeReturns)
    /\ WF_vars(WorkerPrintV1) /\ WF_vars(WorkerPrintMain) /\ WF_vars(WorkerPrintShipping)
    /\ WF_vars(WorkerFinish)

\* Head-of-line scenario: two jobs queued, the prober always answers Ready
\* and at least one label of every attempt fails.
JobsOf(L) == {[serial |-> L[i].NumeroSerie, qr |-> L[i].CodeAleatoireQR,
               date |-> DateOf(L[i].TimestampImpression)] : i \in 1..Len(L)}
FailingDevices ==
    {[probe |-> {Device("ok")}, send |-> f] :
        f \in {g \in [Labels -> {{FALSE}, BOOLEAN}] : \E l \in Labels : g[l] = {FALSE}}}

InitHeadOfLine ==
    /\ ledger = TwoRecords
    /\ savLedger = <<>>
    /\ \E j1 \in JobsOf(TwoRecords), j2 \in JobsOf(TwoRecords) :
          print_queue = <<Job(j1.serial, j1.qr, j1.date, 1), Job(j2.serial, j2.qr, j2.date, 2)>>
    /\ published = NoResult
    /\ lastCmd = NoCmd
    /\ enqueued = <<1, 2>>
    /\ removed = <<>>
    /\ nextId = 3
    /\ wpc = "peek"
    /\ item_to_print = NoItem
    /\ success_v1 = FALSE
    /\ success_main = FALSE
    /\ success_shipping = FALSE
    /\ status_ready = FALSE
    /\ sent = {}
    /\ attempt = {}
    /\ tries = 0
    /\ env \in FailingDevices
    /\ probe_log = NoProbe
    /\ queue_lock = "free"
    /\ router = RouterIdle
    /\ csv_rewrite = NoRewrite
    /\ headers = HeadersPresent
    /\ current_state = "IDLE"
    /\ validated_model = None
    /\ temp_serial_to_validate = None
    /\ timeout_timer_id = FALSE
    /\ scheduled_timeouts = 0
    /\ delayed_resets = 0
    /\ bus = <<>>
    /\ serials_for_expedition = <<>>
    /\ expedition_mode_active = FALSE
    /\ serial_for_sav = None
    /\ serial_to_reprint = None
    /\ qr_text_to_print = None
    /\ qr_content_to_encode = None

SpecHeadOfLine == InitHeadOfLine /\ [][Worker]_vars

-----------------------------------------------------------------------------
(* Finish / validate: scan_manager.py, csv_serial_manager.py *)

\* PrinterConfig.BATTERY_MODELS: model key -> capacity code of the serial
BATTERY_MODELS ==
    [k \in {"13", "12", "8.6"} |->
        CASE k = "13" -> [ah |-> <<"2", "7", "1">>, energy |-> "13"]
          [] k = "12" -> [ah |-> <<"2", "5", "0">>, energy |-> "12"]
          [] k = "8.6" -> [ah |-> <<"1", "7", "9">>, energy |-> "8.6"]]
\* model_key in PrinterConfig.BATTERY_MODELS, for a model key read from a text
InModels(model_key) == Len(model_key) = 1 /\ model_key[1] \in DOMAIN BATTERY_MODELS

VALID_MATERIAL_LETTERS == {"A", "B", "C", "D", "E"}

\* rows whose type and last four characters rebuild temp_serial_to_find are
\* rewritten, the details are those of the last one; nothing is written when
\* no row matches, the model is unknown or the file cannot be written
\* now is the reading of datetime.now() that the rewritten rows receive
validate_and_update_serial(L, temp_serial_to_find, final_model_key, writable, now) ==
    LET hit(i) == <<L[i].type>> \o LastN(L[i].NumeroSerie, 4) = temp_serial_to_find
        hits == {i \in 1..Len(L) : hit(i)}
        new_serial(i) == <<SERIAL_PREFIX_BASE>> \o BATTERY_MODELS[final_model_key[1]].ah
                            \o LastN(L[i].NumeroSerie, 4)
        last == CHOOSE i \in hits : \A j \in hits : j <= i
    IN  IF hits = {} \/ ~InModels(final_model_key) \/ ~writable
        THEN [rows |-> L, ok |-> FALSE, new_serial |-> None, random_qr_code |-> None,
              timestamp_impression |-> None]
        ELSE [rows |-> [i \in 1..Len(L) |->
                          IF hit(i) THEN [L[i] EXCEPT !.NumeroSerie = new_serial(i),
                                                      !.TimestampTestDone = now]
                          ELSE L[i]],
              ok |-> TRUE, new_serial |-> new_serial(last),
              random_qr_code |-> L[last].CodeAleatoireQR,
              timestamp_impression |-> L[last].TimestampImpression]

\* first component of the result of _is_finish_combination_valid
_is_finish_combination_valid_OneTable(material_letter, model_key) ==
    /\ material_letter \in {"A", "B", "C", "D", "E"}
    /\ model_key \in {<<"13">>, <<"12">>, <<"8.6">>}
_is_finish_combination_valid(material_letter, model_key) ==
    LET allowed_models ==
          CASE material_letter \in {"A", "B", "C"} -> {<<"13">>, <<"12">>}
            [] material_letter \in {"D", "E"} -> {<<"8.6">>}
            [] OTHER -> {}
    IN  model_key \in allowed_models

\* app.after_cancel(self.timeout_timer_id) when an id is held: the callbacks
\* that stay scheduled
AfterCancel ==
    IF timeout_timer_id /\ scheduled_timeouts > 0
    THEN scheduled_timeouts - 1 ELSE scheduled_timeouts

_cancel_timeout ==
    /\ timeout_timer_id' = FALSE
    /\ scheduled_timeouts' = AfterCancel

\* variant: the pending countdown is cancelled and none is scheduled
_start_timeout_CancelOnly ==
    /\ timeout_timer_id' = FALSE
    /\ scheduled_timeouts' = AfterCancel

\* variant: a countdown is scheduled and the one already pending is kept
_start_timeout_NoCancel ==
    /\ timeout_timer_id' = TRUE
    /\ scheduled_timeouts' = scheduled_timeouts + 1

\* self._cancel_timeout(), then self.app.after(TIMEOUT_S * 1000, ...)
_start_timeout ==
    /\ timeout_timer_id' = TRUE
    /\ scheduled_timeouts' = AfterCancel + 1

_reset_scan ==
    /\ current_state' = "IDLE"
    /\ serials_for_expedition' = <<>>
    /\ expedition_mode_active' = FALSE
    /\ serial_for_sav' = None
    /\ validated_model' = None
    /\ temp_serial_to_validate' = None
    /\ _cancel_timeout
    /\ UNCHANGED <<serial_to_reprint, qr_text_to_print, qr_content_to_encode>>

_handle_finish_command(text) ==
    LET model_key == strip(AfterFirstSpace(text))
    IN  /\ IF InModels(model_key)
           THEN /\ validated_model' = model_key
                /\ current_state' = "AWAIT_FINISH_SERIAL"
                /\ _start_timeout
                /\ UNCHANGED <<temp_serial_to_validate, scratchVars>>
           ELSE _reset_scan
        /\ UNCHANGED <<delayed_resets, bus>>

_handle_idle_state(text) == UNCHANGED scanVars

_handle_await_finish_serial(text) ==
    LET temp_serial == upperText(strip(text))
    IN  /\ IF ~(Len(temp_serial) = 5 /\ temp_serial[1] \in VALID_MATERIAL_LETTERS
                /\ AllDigits(Tail(temp_serial)))
           THEN UNCHANGED <<current_state, temp_serial_to_validate, timeout_timer_id,
                           scheduled_timeouts>>
           ELSE /\ temp_serial_to_validate' = temp_serial
                /\ current_state' = "AWAIT_FINISH_CONFIRM"
                /\ _start_timeout
        /\ UNCHANGED <<validated_model, delayed_resets, bus, scratchVars>>

_handle_await_finish_confirm(text) ==
    LET expected_command == <<"finish", " ">> \o validated_model
    IN  IF strip(lowerText(text)) # expected_command THEN
           \* self._delayed_reset(2000)
           /\ delayed_resets < MaxPending
           /\ delayed_resets' = delayed_resets + 1
           /\ _cancel_timeout
           /\ UNCHANGED <<current_state, validated_model, temp_serial_to_validate, bus,
                          scratchVars>>
        ELSE IF temp_serial_to_validate = None
                \/ ~_is_finish_combination_valid(temp_serial_to_validate[1], validated_model)
        THEN /\ _reset_scan
             /\ UNCHANGED <<delayed_resets, bus>>
        ELSE /\ \E connected \in BOOLEAN :
                  IF connected
                  THEN /\ Len(bus) < MaxBus
                       /\ bus' = Append(bus, [topic |-> "printer/validate_battery",
                                              temp_serial |-> temp_serial_to_validate,
                                              final_model_key |-> validated_model])
                  ELSE bus' = bus
             /\ _reset_scan
             /\ UNCHANGED delayed_resets

-----------------------------------------------------------------------------
(* Scan session: scan_manager.py, the workflows other than finish *)
\* the capacity markers of SERIAL_PATTERN = r"RW-48v(XXX|271|250|179)\d{4}"
SERIAL_PATTERN_CODES == {XXX, <<"2", "7", "1">>, <<"2", "5", "0">>, <<"1", "7", "9">>}
SerialAt(text, i) ==
    /\ i + 7 <= Len(text)
    /\ text[i] = SERIAL_PREFIX_BASE
    /\ SubSeq(text, i + 1, i + 3) \in SERIAL_PATTERN_CODES
    /\ AllDigits(SubSeq(text, i + 4, i + 7))
\* re.search(self.SERIAL_PATTERN, text): the leftmost match, or None
_extract_serial(text) ==
    LET starts == {i \in 1..Len(text) : SerialAt(text, i)}
    IN  IF starts = {} THEN None
        ELSE LET i == CHOOSE k \in starts : \A j \in starts : k <= j
             IN  SubSeq(text, i, i + 7)

\* self.app.mqtt_client.publish(topic, payload, qos=1), once per message of
\* msgs; a handler publishes while fewer than MaxBus messages are in flight
publish(msgs) ==
    /\ Len(bus) < MaxBus
    /\ bus' = bus \o msgs

\* self._delayed_reset(2000)
_delayed_reset_2000 ==
    /\ delayed_resets < MaxPending
    /\ delayed_resets' = delayed_resets + 1
    /\ _cancel_timeout

_handle_create_command(text) ==
    LET letter == upperText(strip(AfterFirstSpace(text)))
    IN  /\ \E running \in BOOLEAN, connected \in BOOLEAN :
           IF running /\ Len(letter) = 1 /\ letter[1] \in VALID_MATERIAL_LETTERS /\ connected
           THEN publish(<<Message("printer/create_label",
                                  json_dumps([material_letter |-> letter[1]]))>>)
           ELSE UNCHANGED bus
        /\ UNCHANGED <<current_state, validated_model, temp_serial_to_validate,
                       timeout_timer_id, scheduled_timeouts, delayed_resets, scratchVars>>

\* the message of one serial of the batch
ExpeditionMessage(serial, timestamp_iso) ==
    IF is_battery_in_sav(ledger, serial)
    THEN Message("printer/sav_departure",
                 json_dumps([serial_number |-> serial, timestamp_depart |-> timestamp_iso]))
    ELSE Message("printer/update_shipping_timestamp",
                 json_dumps([serial_number |-> serial, timestamp_expedition |-> timestamp_iso]))

_handle_expedition_finalize ==
    \E connected \in BOOLEAN :
    IF serials_for_expedition = <<>> \/ ~connected
    THEN /\ _reset_scan
         /\ UNCHANGED <<delayed_resets, bus>>
    ELSE /\ \E timestamp_iso \in DepartInputs :
              publish([i \in 1..Len(serials_for_expedition) |->
                          ExpeditionMessage(serials_for_expedition[i], timestamp_iso)])
         /\ _reset_scan
         /\ UNCHANGED delayed_resets

_handle_expedition_command ==
    \E running \in BOOLEAN :
    IF ~running THEN UNCHANGED scanVars
    ELSE IF ~expedition_mode_active
    THEN \* self._change_state(self.STATE_AWAIT_EXPEDITION_SERIAL)
         /\ current_state' = "AWAIT_EXPEDITION_SERIAL"
         /\ _cancel_timeout
         /\ expedition_mode_active' = TRUE
         /\ serials_for_expedition' = <<>>
         /\ UNCHANGED <<validated_model, temp_serial_to_validate, delayed_resets, bus,
                        serial_for_sav, serial_to_reprint, qr_text_to_print,
                        qr_content_to_encode>>
    ELSE _handle_expedition_finalize

\* variant: a serial the batch already holds is appended again
_handle_await_expedition_serial_NoDuplicateCheck(text) ==
    LET serial == _extract_serial(text)
    IN  IF strip(lowerText(text)) = <<"expedition">>
        THEN _handle_expedition_finalize
        ELSE IF serial = None \/ SubSeq(serial, 2, 4) = XXX
        THEN UNCHANGED scanVars
        ELSE /\ Len(serials_for_expedition) < 4
             /\ serials_for_expedition' = Append(serials_for_expedition, serial)
             /\ UNCHANGED <<current_state, validated_model, temp_serial_to_validate,
                            timeout_timer_id, scheduled_timeouts, delayed_resets, bus,
                            expedition_mode_active, serial_for_sav, serial_to_reprint,
                            qr_text_to_print, qr_content_to_encode>>

_handle_await_expedition_serial(text) ==
    LET serial == _extract_serial(text)
    IN  IF strip(lowerText(text)) = <<"expedition">>
        THEN _handle_expedition_finalize
        ELSE IF serial = None \/ SubSeq(serial, 2, 4) = XXX
                \/ \E i \in 1..Len(serials_for_expedition) : serials_for_expedition[i] = serial
        THEN UNCHANGED scanVars
        ELSE /\ serials_for_expedition' = Append(serials_for_expedition, serial)
             /\ UNCHANGED <<current_state, validated_model, temp_serial_to_validate,
                            timeout_timer_id, scheduled_timeouts, delayed_resets, bus,
                            expedition_mode_active,
                            serial_for_sav, serial_to_reprint, qr_text_to_print,
                            qr_content_to_encode>>

_handle_await_expedition_confirm(text) == UNCHANGED scanVars

\* variant: the cancellation is announced and the session is left as it is
_handle_expedition_cancel_NoReset ==
    UNCHANGED scanVars

_handle_expedition_cancel ==
    /\ _reset_scan
    /\ UNCHANGED <<delayed_resets, bus>>

_handle_sav_command ==
    \E running \in BOOLEAN :
    IF ~running THEN UNCHANGED scanVars
    ELSE /\ current_state' = "AWAIT_SAV_SERIAL"
         /\ _start_timeout
         /\ UNCHANGED <<validated_model, temp_serial_to_validate, delayed_resets, bus,
                        scratchVars>>

_handle_await_sav_serial(text) ==
    LET serial == _extract_serial(text)
    IN  IF serial = None \/ SubSeq(serial, 2, 4) = XXX
        THEN /\ _delayed_reset_2000
             /\ UNCHANGED <<current_state, validated_model, temp_serial_to_validate, bus,
                            scratchVars>>
        ELSE /\ serial_for_sav' = serial
             /\ current_state' = "AWAIT_SAV_CONFIRM"
             /\ _start_timeout
             /\ UNCHANGED <<validated_model, temp_serial_to_validate, delayed_resets, bus,
                            serials_for_expedition, expedition_mode_active,
                            serial_to_reprint, qr_text_to_print, qr_content_to_encode>>

\* variant: every token confirms the SAV entry
_handle_await_sav_confirm_AnyToken(text) ==
    /\ \E connected \in BOOLEAN :
          IF connected
          THEN \E now \in ArrivalInputs :
                  publish(<<Message("printer/sav_entry",
                                    json_dumps([serial_number |-> serial_for_sav,
                                                timestamp_sav_arrivee |-> now,
                                                technicien |-> "Scanner_User"]))>>)
          ELSE UNCHANGED bus
    /\ _reset_scan
    /\ UNCHANGED delayed_resets

_handle_await_sav_confirm(text) ==
    IF strip(lowerText(text)) # <<"sav">>
    THEN /\ _delayed_reset_2000
         /\ UNCHANGED <<current_state, validated_model, temp_serial_to_validate, bus,
                        scratchVars>>
    ELSE /\ \E connected \in BOOLEAN :
            IF connected
            THEN \E now \in ArrivalInputs :
                    publish(<<Message("printer/sav_entry",
                                      json_dumps([serial_number |-> serial_for_sav,
                                                  timestamp_sav_arrivee |-> now,
                                                  technicien |-> "Scanner_User"]))>>)
            ELSE UNCHANGED bus
         /\ _reset_scan
         /\ UNCHANGED delayed_resets

_handle_new_qr_command ==
    \E running \in BOOLEAN :
    IF ~running THEN UNCHANGED scanVars
    ELSE /\ current_state' = "AWAIT_QR_TEXT"
         /\ _start_timeout
         /\ UNCHANGED <<validated_model, temp_serial_to_validate, delayed_resets, bus,
                        scratchVars>>

_handle_await_qr_text(text) ==
    LET display_text == strip(text)
    IN  IF display_text = <<>> THEN UNCHANGED scanVars
        ELSE /\ qr_text_to_print' = display_text
             /\ current_state' = "AWAIT_QR_CONTENT"
             /\ _start_timeout
             /\ UNCHANGED <<validated_model, temp_serial_to_validate, delayed_resets, bus,
                            serials_for_expedition, expedition_mode_active, serial_for_sav,
                            serial_to_reprint, qr_content_to_encode>>

_handle_await_qr_content(text) ==
    LET qr_content == strip(text)
    IN  IF qr_content = <<>> THEN UNCHANGED scanVars
        ELSE /\ qr_content_to_encode' = qr_content
             /\ current_state' = "AWAIT_QR_CONFIRM"
             /\ _start_timeout
             /\ UNCHANGED <<validated_model, temp_serial_to_validate, delayed_resets, bus,
                            serials_for_expedition, expedition_mode_active, serial_for_sav,
                            serial_to_reprint, qr_text_to_print>>

_handle_await_qr_confirm(text) ==
    IF strip(lowerText(text)) # <<"new", " ", "qr">>
    THEN /\ _delayed_reset_2000
         /\ UNCHANGED <<current_state, validated_model, temp_serial_to_validate, bus,
                        scratchVars>>
    ELSE /\ \E connected \in BOOLEAN :
            IF connected
            THEN publish(<<Message("printer/create_qr",
                                   json_dumps([display_text |-> qr_text_to_print,
                                               qr_content |-> qr_content_to_encode]))>>)
            ELSE UNCHANGED bus
         /\ _reset_scan
         /\ UNCHANGED delayed_resets

_handle_reprint_command ==
    \E running \in BOOLEAN :
    IF ~running THEN UNCHANGED scanVars
    ELSE /\ current_state' = "AWAIT_REPRINT_SERIAL"
         /\ _start_timeout
         /\ UNCHANGED <<validated_model, temp_serial_to_validate, delayed_resets, bus,
                        scratchVars>>

\* the letters of the model in the range [A-Ee] of r"^([A-Ee])(\d{4})$"
ShortFormLetters == {"A", "B", "C", "D", "E", "F", "a", "b", "c", "d", "e"}

_handle_await_reprint_serial(scanned) ==
    LET text == strip(scanned)
        long == _extract_serial(text)
        match_short == Len(text) = 5 /\ text[1] \in ShortFormLetters /\ AllDigits(Tail(text))
        serial == IF long # None THEN long
                  ELSE IF match_short THEN upperText(text) ELSE None
    IN  IF serial = None THEN UNCHANGED scanVars
        ELSE /\ serial_to_reprint' = serial
             /\ current_state' = "AWAIT_REPRINT_CONFIRM"
             /\ _start_timeout
             /\ UNCHANGED <<validated_model, temp_serial_to_validate, delayed_resets, bus,
                            serials_for_expedition, expedition_mode_active, serial_for_sav,
                            qr_text_to_print, qr_content_to_encode>>

_handle_await_reprint_confirm(text) ==
    IF strip(lowerText(text)) # <<"reprint">>
    THEN /\ _delayed_reset_2000
         /\ UNCHANGED <<current_state, validated_model, temp_serial_to_validate, bus,
                        scratchVars>>
    ELSE /\ \E connected \in BOOLEAN :
            IF connected
            THEN publish(<<Message("printer/request_full_reprint",
                                   json_dumps([serial_to_reprint |-> serial_to_reprint]))>>)
            ELSE UNCHANGED bus
         /\ _reset_scan
         /\ UNCHANGED delayed_resets

ScanTexts ==
    { <<"finish", " ", "13">>, <<"FINISH", " ", "8.6">>, <<"finish", " ", "99">>,
      <<"a", "0", "0", "0", "0">>, <<"D", "0", "0", "0", "1">>, <<"F", "0", "0", "0", "0">> }

\* ScanManager.process_scan on one token
scan(scanned_text) ==
      LET text == strip(scanned_text)
          text_lower == lowerText(text)
          startswith(w) == Len(text_lower) >= 2 /\ SubSeq(text_lower, 1, 2) = <<w, " ">>
          idle == current_state = "IDLE"
      IN  /\ lastCmd' = Cmd("scan", [text |-> text, state |-> current_state,
                                     temp_serial |-> temp_serial_to_validate,
                                     model |-> validated_model], "none")
          /\ IF idle /\ startswith("create") THEN _handle_create_command(text)
             ELSE IF idle /\ startswith("finish") THEN _handle_finish_command(text)
             ELSE IF idle /\ text_lower = <<"expedition">> THEN _handle_expedition_command
             ELSE IF idle /\ text_lower = <<"sav">> THEN _handle_sav_command
             ELSE IF idle /\ text_lower = <<"new", " ", "qr">> THEN _handle_new_qr_command
             ELSE IF idle /\ text_lower = <<"reprint">> THEN _handle_reprint_command
             ELSE IF text_lower = <<"cancel">> /\ expedition_mode_active
             THEN _handle_expedition_cancel
             ELSE CASE current_state = "IDLE" -> _handle_idle_state(text)
                    [] current_state = "AWAIT_FINISH_SERIAL" -> _handle_await_finish_serial(text)
                    [] current_state = "AWAIT_FINISH_CONFIRM" -> _handle_await_finish_confirm(text)
                    [] current_state = "AWAIT_EXPEDITION_SERIAL" ->
                         _handle_await_expedition_serial(text)
                    [] current_state = "AWAIT_EXPEDITION_CONFIRM" ->
                         _handle_await_expedition_confirm(text)
                    [] current_state = "AWAIT_SAV_SERIAL" -> _handle_await_sav_serial(text)
                    [] current_state = "AWAIT_SAV_CONFIRM" -> _handle_await_sav_confirm(text)
                    [] current_state = "AWAIT_QR_TEXT" -> _handle_await_qr_text(text)
                    [] current_state = "AWAIT_QR_CONTENT" -> _handle_await_qr_content(text)
                    [] current_state = "AWAIT_QR_CONFIRM" -> _handle_await_qr_confirm(text)
                    [] current_state = "AWAIT_REPRINT_SERIAL" -> _handle_await_reprint_serial(text)
                    [] current_state = "AWAIT_REPRINT_CONFIRM" ->
                         _handle_await_reprint_confirm(text)
          /\ UNCHANGED <<ledgerVars, print_queue, published, queueHist, workerVars, deviceVars, syncVars>>

\* the operator scans the tokens of the finish workflow
process_scan == \E scanned_text \in ScanTexts : scan(scanned_text)

\* the countdown fires
_timeout_expired ==
    /\ timeout_timer_id
    /\ _reset_scan
    /\ UNCHANGED <<ledgerVars, print_queue, published, lastCmd, queueHist, workerVars,
                   deviceVars, syncVars, delayed_resets, bus>>

\* a reset scheduled by _delayed_reset fires
_delayed_reset ==
    /\ delayed_resets > 0
    /\ delayed_resets' = delayed_resets - 1
    /\ _reset_scan
    /\ UNCHANGED <<ledgerVars, print_queue, published, lastCmd, queueHist, workerVars,
                   deviceVars, syncVars, bus>>

\* Router handler of printer/validate_battery: hands the request to
\* validate_and_update_serial and queues the labels of the validated serial
_handle_validate_battery ==
    /\ bus # <<>>
    /\ Head(bus).topic = "printer/validate_battery"
    /\ \E writable \in BOOLEAN :
         LET data == Head(bus)
             r == validate_and_update_serial(ledger, data.temp_serial,
                                             data.final_model_key, writable, "t2")
         IN  /\ lastCmd' = Cmd("validate", [temp_serial |-> data.temp_serial,
                                            final_model_key |-> data.final_model_key],
                               IF writable THEN "none" ELSE "main_write")
             /\ ledger' = r.rows
             /\ IF r.ok
                THEN /\ Len(enqueued) < MaxQueue
                     /\ print_queue' = append(print_queue,
                                              Job(r.new_serial, r.random_qr_code,
                                                  DateOf(r.timestamp_impression), nextId))
                     /\ enqueued' = Append(enqueued, nextId)
                     /\ nextId' = nextId + 1
                     /\ removed' = removed
                ELSE UNCHANGED <<print_queue, queueHist>>
             /\ _publish_operation_result("validate", r.ok)
    /\ bus' = Tail(bus)
    /\ UNCHANGED <<savLedger, workerVars, deviceVars, syncVars, current_state, validated_model,
                   temp_serial_to_validate, timeout_timer_id, scheduled_timeouts,
                   delayed_resets, scratchVars>>

NextFinish == process_scan \/ _timeout_expired \/ _delayed_reset \/ _handle_validate_battery

SpecFinish == InitWorker /\ [][NextFinish]_vars

-----------------------------------------------------------------------------
(* The scan session and the router on one bus *)
\* two batteries created and finished: RW-48v2710000 and RW-48v1790001
FinishedRecords ==
    validate_and_update_serial(
        validate_and_update_serial(TwoRecords, <<"A", "0", "0", "0", "0">>, <<"13">>, TRUE, "t2").rows,
        <<"D", "0", "0", "0", "1">>, <<"8.6">>, TRUE, "t2").rows

\* tokens of the create, reprint and custom QR workflows
SessionTexts ==
    { <<"Reprint">>, <<"new", " ", "qr">>, <<"create", " ", "b">>,
      <<SERIAL_PREFIX_BASE, "2", "7", "1", "0", "0", "0", "0">> }
\* tokens of the expedition workflow
ExpeditionTexts ==
    { <<"expedition">>, <<"cancel">>,
      <<SERIAL_PREFIX_BASE, "2", "7", "1", "0", "0", "0", "0">>,
      <<" ", SERIAL_PREFIX_BASE, "1", "7", "9", "0", "0", "0", "1">> }

\* the operator scans a token
SessionScan == \E scanned_text \in SessionTexts : scan(scanned_text)
ExpeditionScan == \E scanned_text \in ExpeditionTexts : scan(scanned_text)

\* the broker hands the oldest message of the bus to the router
Deliver ==
    /\ bus # <<>>
    /\ \E fault \in Faults : _on_message(Head(bus), fault)
    /\ bus' = Tail(bus)
    /\ UNCHANGED <<workerVars, deviceVars, syncVars, current_state, validated_model,
                   temp_serial_to_validate, timeout_timer_id, scheduled_timeouts,
                   delayed_resets, scratchVars>>

InitSession ==
    /\ ledger = FinishedRecords
    /\ savLedger = <<>>
    /\ print_queue = <<>>
    /\ published = NoResult
    /\ lastCmd = NoCmd
    /\ enqueued = <<>>
    /\ removed = <<>>
    /\ nextId = 1
    /\ wpc = "peek"
    /\ item_to_print = NoItem
    /\ success_v1 = FALSE
    /\ success_main = FALSE
    /\ success_shipping = FALSE
    /\ status_ready = FALSE
    /\ sent = {}
    /\ attempt = {}
    /\ tries = 0
    /\ env = FreeDevice
    /\ probe_log = NoProbe
    /\ queue_lock = "free"
    /\ router = RouterIdle
    /\ csv_rewrite = NoRewrite
    /\ headers = HeadersPresent
    /\ current_state = "IDLE"
    /\ validated_model = None
    /\ temp_serial_to_validate = None
    /\ timeout_timer_id = FALSE
    /\ scheduled_timeouts = 0
    /\ delayed_resets = 0
    /\ bus = <<>>
    /\ serials_for_expedition = <<>>
    /\ expedition_mode_active = FALSE
    /\ serial_for_sav = None
    /\ serial_to_reprint = None
    /\ qr_text_to_print = None
    /\ qr_content_to_encode = None

NextSession == SessionScan \/ _timeout_expired \/ _delayed_reset \/ Deliver

SpecSession == InitSession /\ [][NextSession]_vars

\* the ledgers after the SAV entry of RW-48v2710000 was handled, with or
\* without a write failure, and the session idle
InitExpedition ==
    /\ \E fault \in Faults :
         LET r == add_sav_entry(<<>>, FinishedRecords, "t1",
                                <<SERIAL_PREFIX_BASE, "2", "7", "1", "0", "0", "0", "0">>, fault)
         IN  /\ ledger = r.main
             /\ savLedger = r.sav
    /\ print_queue = <<>>
    /\ published = NoResult
    /\ lastCmd = NoCmd
    /\ enqueued = <<>>
    /\ removed = <<>>
    /\ nextId = 1
    /\ wpc = "peek"
    /\ item_to_print = NoItem
    /\ success_v1 = FALSE
    /\ success_main = FALSE
    /\ success_shipping = FALSE
    /\ status_ready = FALSE
    /\ sent = {}
    /\ attempt = {}
    /\ tries = 0
    /\ env = FreeDevice
    /\ probe_log = NoProbe
    /\ queue_lock = "free"
    /\ router = RouterIdle
    /\ csv_rewrite = NoRewrite
    /\ headers = HeadersPresent
    /\ current_state = "IDLE"
    /\ validated_model = None
    /\ temp_serial_to_validate = None
    /\ timeout_timer_id = FALSE
    /\ scheduled_timeouts = 0
    /\ delayed_resets = 0
    /\ bus = <<>>
    /\ serials_for_expedition = <<>>
    /\ expedition_mode_active = FALSE
    /\ serial_for_sav = None
    /\ serial_to_reprint = None
    /\ qr_text_to_print = None
    /\ qr_content_to_encode = None

NextExpedition == ExpeditionScan \/ Deliver

SpecExpedition == InitExpedition /\ [][NextExpedition]_vars

-----------------------------------------------------------------------------
(* Creation and validation on a ledger close to the end of the 4-digit range *)

\* the last row of a ledger that holds the sequences 0000 to 9999: the rows
\* before it change neither the next sequence nor the row that is appended
LateLedger ==
    add_initial_serial_to_csv(<<>>, "t1", <<"9", "9", "9", "9">>, "A", "q1")

\* the inner QR codes of the records, and one that no record carries
TempSerials ==
    {<<ledger[i].type>> \o LastN(ledger[i].NumeroSerie, 4) : i \in 1..Len(ledger)}
       \cup {<<"B", "9", "9", "9", "8">>}

\* a call of CSVSerialManager.validate_and_update_serial
ValidateSerial ==
    \E temp_serial \in TempSerials, key \in {<<"13">>, <<"8.6">>}, writable \in BOOLEAN,
       now \in Timestamps :
       LET r == validate_and_update_serial(ledger, temp_serial, key, writable, now)
       IN  /\ ledger' = r.rows
           /\ lastCmd' = Cmd("ledger_validate",
                             [temp_serial |-> temp_serial, final_model_key |-> key,
                              ok |-> r.ok],
                             IF writable THEN "none" ELSE "main_write")
           /\ published' = NoResult
           /\ UNCHANGED <<savLedger, print_queue, queueHist, workerVars, deviceVars, syncVars, scanVars>>

InitSerials ==
    /\ ledger \in {<<>>, LateLedger}
    /\ savLedger = <<>>
    /\ print_queue = <<>>
    /\ published = NoResult
    /\ lastCmd = NoCmd
    /\ enqueued = <<>>
    /\ removed = <<>>
    /\ nextId = 1
    /\ wpc = "peek"
    /\ item_to_print = NoItem
    /\ success_v1 = FALSE
    /\ success_main = FALSE
    /\ success_shipping = FALSE
    /\ status_ready = FALSE
    /\ sent = {}
    /\ attempt = {}
    /\ tries = 0
    /\ env = FreeDevice
    /\ probe_log = NoProbe
    /\ queue_lock = "free"
    /\ router = RouterIdle
    /\ csv_rewrite = NoRewrite
    /\ headers = HeadersPresent
    /\ current_state = "IDLE"
    /\ validated_model = None
    /\ temp_serial_to_validate = None
    /\ timeout_timer_id = FALSE
    /\ scheduled_timeouts = 0
    /\ delayed_resets = 0
    /\ bus = <<>>
    /\ serials_for_expedition = <<>>
    /\ expedition_mode_active = FALSE
    /\ serial_for_sav = None
    /\ serial_to_reprint = None
    /\ qr_text_to_print = None
    /\ qr_content_to_encode = None

NextSerials == CreateInitialSerial({"A", "d"}, {"q1"}) \/ ValidateSerial

SpecSerials == InitSerials /\ [][NextSerials]_vars

-----------------------------------------------------------------------------
(* The life of a record after its creation: every operation of
   CSVSerialManager that rewrites the serial ledger, called in any order *)

\* the serials the callers can name: those of the ledger and one it lacks
KnownSerials == {ledger[i].NumeroSerie : i \in 1..Len(ledger)} \cup {ForeignSerial}

\* a call of CSVSerialManager.update_csv_with_shipping_timestamp
ShippingUpdate ==
    \E serial \in KnownSerials, timestamp \in Timestamps, writable \in BOOLEAN :
       /\ ledger' = update_csv_with_shipping_timestamp(ledger, serial, timestamp, writable).rows
       /\ lastCmd' = Cmd("ledger_shipping",
                         [serial_number |-> serial,
                          ok |-> update_csv_with_shipping_timestamp(ledger, serial, timestamp,
                                                                    writable).ok],
                         IF writable THEN "none" ELSE "main_write")
       /\ published' = NoResult
       /\ UNCHANGED <<savLedger, print_queue, queueHist, workerVars, deviceVars, syncVars, scanVars>>

\* a call of CSVSerialManager.update_csv_with_test_done_timestamp
TestDoneUpdate ==
    \E serial \in KnownSerials, timestamp \in Timestamps, writable \in BOOLEAN :
       /\ ledger' = update_csv_with_test_done_timestamp(ledger, serial, timestamp, writable).rows
       /\ lastCmd' = Cmd("ledger_test_done",
                         [serial_number |-> serial,
                          ok |-> update_csv_with_test_done_timestamp(ledger, serial, timestamp,
                                                                     writable).ok],
                         IF writable THEN "none" ELSE "main_write")
       /\ published' = NoResult
       /\ UNCHANGED <<savLedger, print_queue, queueHist, workerVars, deviceVars, syncVars, scanVars>>

\* a call of CSVSerialManager._update_main_csv_sav_status
SavStatusUpdate ==
    \E serial \in KnownSerials, value \in {"True", "False"}, writable \in BOOLEAN :
       /\ ledger' = _update_main_csv_sav_status(ledger, serial, value, writable).rows
       /\ lastCmd' = Cmd("ledger_sav_status",
                         [serial_number |-> serial,
                          ok |-> _update_main_csv_sav_status(ledger, serial, value,
                                                             writable).ok],
                         IF writable THEN "none" ELSE "main_write")
       /\ published' = NoResult
       /\ UNCHANGED <<savLedger, print_queue, queueHist, workerVars, deviceVars, syncVars, scanVars>>

\* one or two records created earlier, none of them validated yet
InitRecords ==
    /\ ledger \in {OneRecord, TwoRecords}
    /\ savLedger = <<>>
    /\ print_queue = <<>>
    /\ published = NoResult
    /\ lastCmd = NoCmd
    /\ enqueued = <<>>
    /\ removed = <<>>
    /\ nextId = 1
    /\ wpc = "peek"
    /\ item_to_print = NoItem
    /\ success_v1 = FALSE
    /\ success_main = FALSE
    /\ success_shipping = FALSE
    /\ status_ready = FALSE
    /\ sent = {}
    /\ attempt = {}
    /\ tries = 0
    /\ env = FreeDevice
    /\ probe_log = NoProbe
    /\ queue_lock = "free"
    /\ router = RouterIdle
    /\ csv_rewrite = NoRewrite
    /\ headers = HeadersPresent
    /\ current_state = "IDLE"
    /\ validated_model = None
    /\ temp_serial_to_validate = None
    /\ timeout_timer_id = FALSE
    /\ scheduled_timeouts = 0
    /\ delayed_resets = 0
    /\ bus = <<>>
    /\ serials_for_expedition = <<>>
    /\ expedition_mode_active = FALSE
    /\ serial_for_sav = None
    /\ serial_to_reprint = None
    /\ qr_text_to_print = None
    /\ qr_content_to_encode = None

NextRecords ==
    \/ ValidateSerial
    \/ ShippingUpdate
    \/ TestDoneUpdate
    \/ SavStatusUpdate

SpecRecords == InitRecords /\ [][NextRecords]_vars

-----------------------------------------------------------------------------
(* Reprint requests in the two forms the scan session accepts *)

\* the short form of a record: type letter and 4-digit sequence (A0032)
ShortForm(row) == <<row.type>> \o LastN(row.NumeroSerie, 4)
ShortForms == {ShortForm(ledger[i]) : i \in 1..Len(ledger)}
                 \cup {<<"A", "9", "9", "9", "9">>}

\* the router handles a reprint request whose payload is a full serial, a
\* short form or empty
ReprintRequest ==
    \E serial_number \in ReprintPayloads \cup ShortForms :
        /\ reprint(serial_number)
        /\ UNCHANGED <<workerVars, deviceVars, syncVars, scanVars>>

\* no record, two created records, two finished records
InitReprint ==
    /\ ledger \in {<<>>, TwoRecords, FinishedRecords}
    /\ savLedger = <<>>
    /\ print_queue = <<>>
    /\ published = NoResult
    /\ lastCmd = NoCmd
    /\ enqueued = <<>>
    /\ removed = <<>>
    /\ nextId = 1
    /\ wpc = "peek"
    /\ item_to_print = NoItem
    /\ success_v1 = FALSE
    /\ success_main = FALSE
    /\ success_shipping = FALSE
    /\ status_ready = FALSE
    /\ sent = {}
    /\ attempt = {}
    /\ tries = 0
    /\ env = FreeDevice
    /\ probe_log = NoProbe
    /\ queue_lock = "free"
    /\ router = RouterIdle
    /\ csv_rewrite = NoRewrite
    /\ headers = HeadersPresent
    /\ current_state = "IDLE"
    /\ validated_model = None
    /\ temp_serial_to_validate = None
    /\ timeout_timer_id = FALSE
    /\ scheduled_timeouts = 0
    /\ delayed_resets = 0
    /\ bus = <<>>
    /\ serials_for_expedition = <<>>
    /\ expedition_mode_active = FALSE
    /\ serial_for_sav = None
    /\ serial_to_reprint = None
    /\ qr_text_to_print = None
    /\ qr_content_to_encode = None

NextReprint == ReprintRequest

SpecReprint == InitReprint /\ [][NextReprint]_vars

-----------------------------------------------------------------------------
(* The operator alone: every workflow of the scan session can be entered and
   left while the MQTT client of the session is disconnected, so that a
   confirmation publishes nothing *)

\* the command words, a finished serial, the short form of a record and cancel
OperatorTexts ==
    { <<"finish", " ", "13">>, <<"expedition">>, <<"sav">>, <<"new", " ", "qr">>,
      <<"reprint">>, <<"cancel">>, <<"a", "0", "0", "0", "0">>,
      <<SERIAL_PREFIX_BASE, "2", "7", "1", "0", "0", "0", "0">> }

OperatorScan == \E scanned_text \in OperatorTexts : scan(scanned_text) /\ bus' = bus

NextOperator == OperatorScan \/ _timeout_expired \/ _delayed_reset

SpecOperator == InitSession /\ [][NextOperator]_vars

\* the Tk event loop runs every callback scheduled with after(): an armed
\* countdown and a scheduled reset fire unless they are cancelled first
SpecOperatorFair ==
    SpecOperator /\ WF_vars(_timeout_expired) /\ WF_vars(_delayed_reset)

-----------------------------------------------------------------------------
(* The print queue between its two threads, one statement at a time: the
   router thread handles reprint requests, the worker thread runs its loop;
   "with self.queue_lock:" is an acquire step, the body and a release step *)

\* _handle_reprint up to the queue: the request is checked and the record
\* looked up in the ledger; a request that fails is answered at once
RouterLookup ==
    /\ router.pc = "idle"
    /\ \E serial_number \in ReprintPayloads :
         LET details == get_details_for_reprint_from_csv(ledger, serial_number)
         IN  /\ lastCmd' = Cmd("reprint", [serial_number |-> serial_number], "none")
             /\ IF serial_number = <<>> \/ details = None
                THEN /\ _publish_operation_result("reprint", FALSE)
                     /\ UNCHANGED router
                ELSE /\ Len(enqueued) < MaxQueue
                     /\ router' = [pc |-> "acquire",
                                   job |-> Job(serial_number, details[2], DateOf(details[3]), 0)]
                     /\ UNCHANGED published
    /\ UNCHANGED <<ledgerVars, print_queue, queueHist, workerVars, deviceVars, scanVars,
                   queue_lock, csv_rewrite, headers>>

\* variant: the lock is taken without waiting for it
RouterAcquire_NoWait ==
    /\ router.pc = "acquire"
    /\ queue_lock' = "router"
    /\ router' = [router EXCEPT !.pc = "append"]
    /\ UNCHANGED <<ledgerVars, print_queue, published, lastCmd, queueHist, workerVars,
                   deviceVars, scanVars, csv_rewrite, headers>>

\* with self.queue_lock: (router thread)
RouterAcquire ==
    /\ router.pc = "acquire"
    /\ queue_lock = "free"
    /\ queue_lock' = "router"
    /\ router' = [router EXCEPT !.pc = "append"]
    /\ UNCHANGED <<ledgerVars, print_queue, published, lastCmd, queueHist, workerVars,
                   deviceVars, scanVars, csv_rewrite, headers>>

\* self.print_queue.append(...); queue_size = len(self.print_queue)
RouterAppend ==
    /\ router.pc = "append"
    /\ print_queue' = append(print_queue, [router.job EXCEPT !.id = nextId])
    /\ enqueued' = Append(enqueued, nextId)
    /\ nextId' = nextId + 1
    /\ router' = [router EXCEPT !.pc = "release"]
    /\ UNCHANGED <<ledgerVars, published, lastCmd, removed, workerVars, deviceVars,
                   scanVars, queue_lock, csv_rewrite, headers>>

\* the end of the with block
RouterRelease ==
    /\ router.pc = "release"
    /\ queue_lock' = "free"
    /\ router' = [router EXCEPT !.pc = "publish"]
    /\ UNCHANGED <<ledgerVars, print_queue, published, lastCmd, queueHist, workerVars,
                   deviceVars, scanVars, csv_rewrite, headers>>

\* self._publish_operation_result("reprint", True, ...)
RouterPublish ==
    /\ router.pc = "publish"
    /\ _publish_operation_result("reprint", TRUE)
    /\ router' = RouterIdle
    /\ UNCHANGED <<ledgerVars, print_queue, lastCmd, queueHist, workerVars, deviceVars,
                   scanVars, queue_lock, csv_rewrite, headers>>

RouterThread ==
    RouterLookup \/ RouterAcquire \/ RouterAppend \/ RouterRelease \/ RouterPublish

\* with self.queue_lock: (worker thread), before the peek and before the pop
WorkerAcquire ==
    /\ wpc \in {"peek", "pop"}
    /\ queue_lock = "free"
    /\ queue_lock' = "worker"
    /\ wpc' = IF wpc = "peek" THEN "peek_locked" ELSE "pop_locked"
    /\ UNCHANGED <<ledgerVars, print_queue, published, lastCmd, queueHist, item_to_print,
                   success_v1, success_main, success_shipping, status_ready, sent,
                   attempt, tries, deviceVars, scanVars, router, csv_rewrite, headers>>

\* if self.print_queue: item_to_print = self.print_queue[0]
WorkerLockedPeek ==
    /\ wpc = "peek_locked"
    /\ item_to_print' = IF print_queue # <<>> THEN peek(print_queue) ELSE NoItem
    /\ wpc' = "peek_release"
    /\ success_v1' = FALSE /\ success_main' = FALSE /\ success_shipping' = FALSE
    /\ status_ready' = FALSE
    /\ attempt' = {}
    /\ UNCHANGED <<ledgerVars, print_queue, published, lastCmd, queueHist, sent, tries,
                   deviceVars, syncVars, scanVars>>

\* if self.print_queue and self.print_queue[0] == item_to_print: popleft()
WorkerLockedPop ==
    /\ wpc = "pop_locked"
    /\ IF print_queue # <<>> /\ JobTuple(print_queue[1]) = JobTuple(item_to_print)
       THEN /\ print_queue' = popleft(print_queue)
            /\ removed' = Append(removed, print_queue[1].id)
       ELSE UNCHANGED <<print_queue, removed>>
    /\ wpc' = "pop_release"
    /\ UNCHANGED <<ledgerVars, published, lastCmd, enqueued, nextId, item_to_print,
                   success_v1, success_main, success_shipping, status_ready, sent,
                   attempt, tries, deviceVars, syncVars, scanVars>>

\* the end of a with block of the worker; a pop ends the attempt
WorkerRelease ==
    /\ wpc \in {"peek_release", "pop_release"}
    /\ queue_lock' = "free"
    /\ wpc' = IF wpc = "pop_release" THEN "sleep"
              ELSE IF item_to_print = NoItem THEN "sleep" ELSE "probe"
    /\ tries' = IF wpc = "pop_release" /\ tries < MaxTries THEN tries + 1 ELSE tries
    /\ UNCHANGED <<ledgerVars, print_queue, published, lastCmd, queueHist, item_to_print,
                   success_v1, success_main, success_shipping, status_ready, sent,
                   attempt, deviceVars, scanVars, router, csv_rewrite, headers>>

\* if success: ... else: the attempt ends
WorkerOutcome ==
    /\ wpc = "finish"
    /\ LET success == _print_all_three_labels(success_v1, success_main, success_shipping)
       IN  /\ wpc' = IF success THEN "pop" ELSE "sleep"
           /\ tries' = IF ~success /\ tries < MaxTries THEN tries + 1 ELSE tries
    /\ UNCHANGED <<ledgerVars, print_queue, published, lastCmd, queueHist, item_to_print,
                   success_v1, success_main, success_shipping, status_ready, sent,
                   attempt, deviceVars, syncVars, scanVars>>

WorkerThread ==
    \/ WorkerAcquire \/ WorkerLockedPeek \/ WorkerRelease
    \/ WorkerProbe \/ WorkerPrintV1 \/ WorkerPrintMain \/ WorkerPrintShipping
    \/ WorkerOutcome \/ WorkerLockedPop \/ WorkerSleep

NextLock == RouterThread \/ WorkerThread

SpecLock == InitWorker /\ [][NextLock]_vars

-----------------------------------------------------------------------------
(* The device between the two threads that transmit to it: the worker sends
   the three labels of the job at the head of the queue, the router thread
   sends a custom QR label from _handle_create_qr.  _send_zpl_to_printer is
   entered (socket created and connected) in one step and left (sendall,
   close, return) in another; no lock is taken around it *)

\* the router thread takes a reprint request between two messages
DeviceReprint == router = RouterIdle /\ _handle_reprint

\* _handle_create_qr up to the call of _send_zpl_to_printer: a payload
\* without qr_text is logged and dropped
QrReceive ==
    /\ router.pc = "idle"
    /\ \E data \in QrPayloads :
         LET qr_text == Get(data, "qr_text")
         IN  IF qr_text = ""
             THEN /\ lastCmd' = Cmd("create_qr", data, "none")
                  /\ UNCHANGED router
             ELSE /\ router' = [pc |-> "send_qr", data |-> data]
                  /\ UNCHANGED lastCmd
    /\ UNCHANGED <<ledgerVars, print_queue, published, queueHist, workerVars, deviceVars,
                   scanVars, queue_lock, csv_rewrite, headers>>

\* _send_zpl_to_printer returns to _handle_create_qr, which logs the outcome
QrSent ==
    /\ router.pc = "send_qr"
    /\ \E success \in BOOLEAN :
         lastCmd' = Cmd("create_qr", router.data, IF success THEN "none" ELSE "device")
    /\ router' = RouterIdle
    /\ UNCHANGED <<ledgerVars, print_queue, published, queueHist, workerVars, deviceVars,
                   scanVars, queue_lock, csv_rewrite, headers>>

\* the worker enters _send_zpl_to_printer for the V1 label
WorkerSendV1 ==
    /\ wpc = "print_v1"
    /\ wpc' = "send_v1"
    /\ sent' = sent \cup {item_to_print.id}
    /\ attempt' = attempt \cup {"v1"}
    /\ UNCHANGED <<ledgerVars, print_queue, published, lastCmd, queueHist, item_to_print,
                   success_v1, success_main, success_shipping, status_ready, tries,
                   deviceVars, syncVars, scanVars>>

\* success_v1 = the value _send_zpl_to_printer returns
WorkerSentV1 ==
    /\ wpc = "send_v1"
    /\ \E ok \in env.send["v1"] : success_v1' = ok
    /\ wpc' = "print_main"
    /\ UNCHANGED <<ledgerVars, print_queue, published, lastCmd, queueHist, item_to_print,
                   success_main, success_shipping, status_ready, sent, attempt, tries,
                   deviceVars, syncVars, scanVars>>

\* the worker enters _send_zpl_to_printer for the main label
WorkerSendMain ==
    /\ wpc = "print_main"
    /\ wpc' = "send_main"
    /\ sent' = sent \cup {item_to_print.id}
    /\ attempt' = attempt \cup {"main"}
    /\ UNCHANGED <<ledgerVars, print_queue, published, lastCmd, queueHist, item_to_print,
                   success_v1, success_main, success_shipping, status_ready, tries,
                   deviceVars, syncVars, scanVars>>

\* success_main = the value _send_zpl_to_printer returns
WorkerSentMain ==
    /\ wpc = "send_main"
    /\ \E ok \in env.send["main"] : success_main' = ok
    /\ wpc' = "print_shipping"
    /\ UNCHANGED <<ledgerVars, print_queue, published, lastCmd, queueHist, item_to_print,
                   success_v1, success_shipping, status_ready, sent, attempt, tries,
                   deviceVars, syncVars, scanVars>>

\* the worker enters _send_zpl_to_printer for the shipping label
WorkerSendShipping ==
    /\ wpc = "print_shipping"
    /\ wpc' = "send_shipping"
    /\ sent' = sent \cup {item_to_print.id}
    /\ attempt' = attempt \cup {"shipping"}
    /\ UNCHANGED <<ledgerVars, print_queue, published, lastCmd, queueHist, item_to_print,
                   success_v1, success_main, success_shipping, status_ready, tries,
                   deviceVars, syncVars, scanVars>>

\* success_shipping = the value _send_zpl_to_printer returns
WorkerSentShipping ==
    /\ wpc = "send_shipping"
    /\ \E ok \in env.send["shipping"] : success_shipping' = ok
    /\ wpc' = "finish"
    /\ UNCHANGED <<ledgerVars, print_queue, published, lastCmd, queueHist, item_to_print,
                   success_v1, success_main, status_ready, sent, attempt, tries,
                   deviceVars, syncVars, scanVars>>

NextDevice ==
    \/ DeviceReprint \/ QrReceive \/ QrSent
    \/ WorkerPeek \/ WorkerSleep \/ WorkerProbe
    \/ WorkerSendV1 \/ WorkerSentV1 \/ WorkerSendMain \/ WorkerSentMain
    \/ WorkerSendShipping \/ WorkerSentShipping \/ WorkerFinish

SpecDevice == InitWorker /\ [][NextDevice]_vars

-----------------------------------------------------------------------------
(* printed_serials.csv between its two processes: the print service rewrites
   it (read all rows, open with mode 'w', write all rows), the scan session
   reads it to tell a SAV return from a shipment.  The file is empty once it
   is opened for writing and receives the rows one after the other. *)

\* the router reads the rows, changes them in memory and opens the file for
\* writing: a shipping update or a change of the SAV flag
RewriteOpen ==
    /\ ~csv_rewrite.open
    /\ \E serial \in KnownSerials, timestamp \in Timestamps, flag \in {"True", "False"},
          shipping \in BOOLEAN :
         LET r == IF shipping
                  THEN update_csv_with_shipping_timestamp(ledger, serial, timestamp, TRUE)
                  ELSE _update_main_csv_sav_status(ledger, serial, flag, TRUE)
         IN  /\ r.ok
             /\ csv_rewrite' = [open |-> TRUE, rows |-> r.rows]
             /\ ledger' = <<>>
             /\ lastCmd' = Cmd(IF shipping THEN "ledger_shipping" ELSE "ledger_sav_status",
                               [serial_number |-> serial], "none")
    /\ UNCHANGED <<savLedger, print_queue, published, queueHist, workerVars, deviceVars,
                   scanVars, queue_lock, router, headers>>

\* writer.writerows(rows_to_write): the next row reaches the file
RewriteRow ==
    /\ csv_rewrite.open
    /\ Len(ledger) < Len(csv_rewrite.rows)
    /\ ledger' = Append(ledger, csv_rewrite.rows[Len(ledger) + 1])
    /\ UNCHANGED <<savLedger, print_queue, published, lastCmd, queueHist, workerVars,
                   deviceVars, scanVars, syncVars>>

\* the end of the with block: the file is closed
RewriteClose ==
    /\ csv_rewrite.open
    /\ Len(ledger) = Len(csv_rewrite.rows)
    /\ csv_rewrite' = NoRewrite
    /\ UNCHANGED <<ledgerVars, print_queue, published, lastCmd, queueHist, workerVars,
                   deviceVars, scanVars, queue_lock, router, headers>>

\* _handle_expedition_finalize of the scan session asks whether a serial of
\* the batch is in SAV: CSVSerialManager.is_battery_in_sav reads the file
SessionReadsSav ==
    \E serial \in {FinishedRecords[i].NumeroSerie : i \in 1..Len(FinishedRecords)} :
        /\ lastCmd' = Cmd("sav_check",
                          [serial_number |-> serial,
                           is_sav_battery |-> is_battery_in_sav(ledger, serial),
                           rows |-> ledger], "none")
        /\ UNCHANGED <<ledgerVars, print_queue, published, queueHist, workerVars,
                       deviceVars, scanVars, syncVars>>

NextFile == RewriteOpen \/ RewriteRow \/ RewriteClose \/ SessionReadsSav

\* the ledgers after the SAV entry of RW-48v2710000
SpecFile == InitExpedition /\ [][NextFile]_vars

-----------------------------------------------------------------------------
(* The expedition batch and the SAV workflow on one session: the tokens an
   operator scans while a batch accumulates, with the MQTT client of the
   session disconnected *)

\* the two command words and cancel, two finished serials (one scanned with
\* a leading blank), a placeholder serial, a truncated serial, a finished
\* serial inside a longer text and one with a fifth digit
BatchTexts ==
    { <<"expedition">>, <<"cancel">>, <<"sav">>,
      <<SERIAL_PREFIX_BASE, "2", "7", "1", "0", "0", "0", "0">>,
      <<" ", SERIAL_PREFIX_BASE, "1", "7", "9", "0", "0", "0", "1">>,
      <<SERIAL_PREFIX_BASE, "X", "X", "X", "0", "0", "0", "2">>,
      <<SERIAL_PREFIX_BASE, "2", "7", "1", "0", "0">>,
      <<"S", "N", " ", SERIAL_PREFIX_BASE, "2", "5", "0", "0", "0", "0", "3">>,
      <<SERIAL_PREFIX_BASE, "2", "5", "0", "0", "0", "0", "4", "5">> }

BatchScan == \E scanned_text \in BatchTexts : scan(scanned_text) /\ bus' = bus

NextBatch == BatchScan \/ _timeout_expired \/ _delayed_reset

SpecBatch == InitSession /\ [][NextBatch]_vars

-----------------------------------------------------------------------------
(* The four workflows that end with a confirmation, on one session whose
   MQTT client is connected or not at each confirmation *)

\* the command words, which are the confirmations too, two inner QR codes
\* (type A fits the 13 kWh model, type D does not) and a finished serial
ConfirmTexts ==
    { <<"finish", " ", "13">>, <<"sav">>, <<"new", " ", "qr">>, <<"reprint">>,
      <<"a", "0", "0", "0", "0">>, <<"D", "0", "0", "0", "1">>,
      <<SERIAL_PREFIX_BASE, "2", "7", "1", "0", "0", "0", "0">> }

\* a token is scanned once the client has sent what the session published
ConfirmScan == bus = <<>> /\ \E scanned_text \in ConfirmTexts : scan(scanned_text)

\* the network loop of the MQTT client sends the oldest published message
\* to the broker
BrokerTakes ==
    /\ bus # <<>>
    /\ bus' = Tail(bus)
    /\ UNCHANGED <<ledgerVars, print_queue, published, lastCmd, queueHist, workerVars,
                   deviceVars, syncVars, current_state, validated_model,
                   temp_serial_to_validate, timeout_timer_id, scheduled_timeouts,
                   delayed_resets, scratchVars>>

NextConfirm == ConfirmScan \/ BrokerTakes \/ _timeout_expired \/ _delayed_reset

SpecConfirm == InitSession /\ [][NextConfirm]_vars

-----------------------------------------------------------------------------
(* The two ledger files at first use: MinimalPrinter.__init__, and every
   creation and SAV entry after it, initialise the header of a file that the
   service finds as it was left on the disk *)

\* first lines a file can be found with: none, the header, the header cut
\* after its first column, the header without its first column
HeaderLines(header) == {<<>>, header, <<header[1]>>, Tail(header)}
FoundFiles(header) ==
    {CsvFile(TRUE, line) : line \in HeaderLines(header)} \cup {CsvFile(FALSE, <<>>)}
ReadFaults == {"none", "read"}

\* CSVSerialManager.initialize_serial_csv()
SerialCsvInitialised ==
    \E fault \in ReadFaults :
        LET r == initialize_serial_csv(headers.main, ledger, fault)
        IN  /\ ledger' = r.rows
            /\ headers' = [headers EXCEPT !.main = r.file]
            /\ lastCmd' = Cmd("initialize_serial_csv", <<>>, fault)
            /\ UNCHANGED <<savLedger, print_queue, published, queueHist, workerVars,
                           deviceVars, scanVars, queue_lock, router, csv_rewrite>>

\* CSVSerialManager.initialize_sav_csv()
SavCsvInitialised ==
    \E fault \in ReadFaults :
        LET r == initialize_sav_csv(headers.sav, savLedger, fault)
        IN  /\ savLedger' = r.rows
            /\ headers' = [headers EXCEPT !.sav = r.file]
            /\ lastCmd' = Cmd("initialize_sav_csv", <<>>, fault)
            /\ UNCHANGED <<ledger, print_queue, published, queueHist, workerVars,
                           deviceVars, scanVars, queue_lock, router, csv_rewrite>>

InitHeader ==
    /\ ledger \in {<<>>, OneRecord, TwoRecords}
    /\ savLedger \in {<<>>, <<SavRow("t1", OneRecord[1].NumeroSerie)>>}
    /\ headers \in [main : FoundFiles(SERIAL_CSV_HEADER), sav : FoundFiles(SAV_CSV_HEADER)]
    /\ ~headers.main.exists => ledger = <<>>
    /\ ~headers.sav.exists => savLedger = <<>>
    /\ print_queue = <<>>
    /\ published = NoResult
    /\ lastCmd = NoCmd
    /\ enqueued = <<>>
    /\ removed = <<>>
    /\ nextId = 1
    /\ wpc = "peek"
    /\ item_to_print = NoItem
    /\ success_v1 = FALSE
    /\ success_main = FALSE
    /\ success_shipping = FALSE
    /\ status_ready = FALSE
    /\ sent = {}
    /\ attempt = {}
    /\ tries = 0
    /\ env = FreeDevice
    /\ probe_log = NoProbe
    /\ queue_lock = "free"
    /\ router = RouterIdle
    /\ csv_rewrite = NoRewrite
    /\ current_state = "IDLE"
    /\ validated_model = None
    /\ temp_serial_to_validate = None
    /\ timeout_timer_id = FALSE
    /\ scheduled_timeouts = 0
    /\ delayed_resets = 0
    /\ bus = <<>>
    /\ serials_for_expedition = <<>>
    /\ expedition_mode_active = FALSE
    /\ serial_for_sav = None
    /\ serial_to_reprint = None
    /\ qr_text_to_print = None
    /\ qr_content_to_encode = None

NextHeader == SerialCsvInitialised \/ SavCsvInitialised

SpecHeader == InitHeader /\ [][NextHeader]_vars

-----------------------------------------------------------------------------
(* Vocabulary of the properties *)

\* the step handles a command of kind op
Handled(op) == lastCmd'.tick # lastCmd.tick /\ lastCmd'.op = op

\* a serial of the documented format: prefix, 3-character capacity marker, 4 digits
WellFormed(serial) ==
    /\ Len(serial) = 8
    /\ serial[1] = SERIAL_PREFIX_BASE
    /\ \A i \in 5..8 : serial[i] \in Digits
Sequence(serial) ==
    1000 * DigitVal(serial[5]) + 100 * DigitVal(serial[6])
      + 10 * DigitVal(serial[7]) + DigitVal(serial[8])
Sequences4(L) == {Sequence(L[i].NumeroSerie) : i \in {j \in 1..Len(L) : WellFormed(L[j].NumeroSerie)}}
ExpectedNext(L) ==
    IF Sequences4(L) = {} THEN 0
    ELSE 1 + (CHOOSE m \in Sequences4(L) : \A n \in Sequences4(L) : n <= m)

\* value of a string of decimal digits
RECURSIVE Decimal(_)
Decimal(s) == IF s = <<>> THEN 0 ELSE 10 * Decimal(SubSeq(s, 1, Len(s) - 1)) + DigitVal(s[Len(s)])

FlagTrue(L, s)  == /\ \E i \in 1..Len(L) : L[i].NumeroSerie = s
                   /\ \A i \in 1..Len(L) : L[i].NumeroSerie = s => L[i].sav_status = "True"
FlagFalse(L, s) == /\ \E i \in 1..Len(L) : L[i].NumeroSerie = s
                   /\ \A i \in 1..Len(L) : L[i].NumeroSerie = s => L[i].sav_status = "False"
OpenRows(S, s) == {i \in 1..Len(S) : S[i].NumeroSerie = s /\ S[i].TimestampDepart = ""}

Reported(op, ok) == published = [operation |-> op, success |-> ok]
Complete(data, fields) == fields \subseteq DOMAIN data

-----------------------------------------------------------------------------
C2_EntryExactlyOneOpen ==
    (lastCmd.op = "sav_entry" /\ Reported("sav_entry", TRUE)) =>
        /\ FlagTrue(ledger, lastCmd.data.serial_number)
        /\ Cardinality(OpenRows(savLedger, lastCmd.data.serial_number)) = 1

\* C3: right after a SAV-Departure that reports success for serial s,
\* sav_status of s is false, every record that was open for s carries the
\* departure timestamp of the request, and no open record for s remains.
C3_DepartureCloses ==
    [][(Handled("sav_departure") /\ published'.success) =>
         LET s == lastCmd'.data.serial_number
         IN  /\ FlagFalse(ledger', s)
             /\ OpenRows(savLedger, s) # {}
             /\ \A i \in OpenRows(savLedger, s) :
                   savLedger'[i].TimestampDepart = lastCmd'.data.timestamp_depart
             /\ lastCmd'.data.timestamp_depart # ""
             /\ OpenRows(savLedger', s) = {}]_vars

C3_Witness ==
    /\ lastCmd.op = "sav_departure"
    /\ Reported("sav_departure", TRUE)
    /\ FlagFalse(ledger, lastCmd.data.serial_number)
    /\ \E i \in 1..Len(savLedger) :
          /\ savLedger[i].NumeroSerie = lastCmd.data.serial_number
          /\ savLedger[i].TimestampDepart = lastCmd.data.timestamp_depart

C5_DepartureRejectedWhenClosed ==
    [][(/\ Handled("sav_departure")
        /\ Complete(lastCmd'.data, {"serial_number", "timestamp_depart"})
        /\ \/ ~FlagTrue(ledger, lastCmd'.data.serial_number)
           \/ OpenRows(savLedger, lastCmd'.data.serial_number) = {}) =>
         /\ published' = [operation |-> "sav_departure", success |-> FALSE]
         /\ UNCHANGED ledgerVars]_vars

C5_Witness ==
    /\ lastCmd.op = "sav_departure"
    /\ Complete(lastCmd.data, {"serial_number", "timestamp_depart"})
    /\ lastCmd.fault = "none"
    /\ Reported("sav_departure", FALSE)
    /\ FlagFalse(ledger, lastCmd.data.serial_number)

\* C9 (first half): from an empty ledger a Create command for unit type B
\* leaves one record with sequence 0000 and sav_status false, and one job in
\* the queue.
C9_CreateScenario ==
    [][(Handled("create") /\ ledger = <<>> /\ print_queue = <<>>) =>
         /\ Len(ledger') = 1
         /\ WellFormed(ledger'[1].NumeroSerie)
         /\ Sequence(ledger'[1].NumeroSerie) = 0
         /\ ledger'[1].sav_status = "False"
         /\ Len(print_queue') = 1]_vars

\* C6: with the queue [J1, J2], a prober that always reports Ready and J1's
\* transmission always failing, after any number of worker cycles J1 is still
\* the head of the queue and no label of J2 has been transmitted.
C6_HeadOfLineBlocking ==
    /\ Ids(print_queue) = <<1, 2>>
    /\ 2 \notin sent
    /\ removed = <<>>

C6_Witness ==
    /\ tries >= 2
    /\ 1 \in sent
    /\ wpc = "finish"
    /\ success_v1 /\ success_main /\ ~success_shipping

\* C7: jobs leave the queue in the order in which they were appended, under
\* every interleaving of the handlers' appends with the worker's peek and
\* pop: the jobs removed followed by the jobs queued are the jobs appended.
C7_FifoOrder ==
    /\ removed \o Ids(print_queue) = enqueued
    /\ \A i, j \in 1..Len(enqueued) : i < j => enqueued[i] < enqueued[j]

C7_Witness ==
    /\ Len(removed) >= 2
    /\ Len(print_queue) >= 1
    /\ wpc = "finish"
    /\ item_to_print.id = print_queue[1].id
    /\ lastCmd.op = "reprint" /\ Reported("reprint", TRUE)

\* C8: the worker removes the head job only when the three labels of that job
\* were all transmitted with success since the last peek; when a transmission
\* failed the job stays at the head, and every attempt sends all three labels.
C8_PopOnlyAfterFullSuccess ==
    [][/\ (print_queue' # print_queue /\ enqueued' = enqueued) =>
             /\ wpc = "finish"
             /\ attempt = Labels
             /\ success_v1 /\ success_main /\ success_shipping
             /\ print_queue[1].id = item_to_print.id
             /\ print_queue' = Tail(print_queue)
       /\ (wpc = "finish" /\ wpc' # "finish") =>
             /\ attempt = Labels
             /\ ~(success_v1 /\ success_main /\ success_shipping) =>
                   print_queue' = print_queue]_vars

C8_Witness ==
    /\ tries >= 2
    /\ Len(removed) = 1
    /\ wpc = "sleep"
    /\ attempt = Labels
    /\ success_v1 /\ success_main /\ success_shipping
    /\ removed[1] = item_to_print.id

\* C10: a finish request whose unit-type letter does not permit the target
\* capacity (A, B, C permit 13 and 12; D, E permit 8.6) is rejected: the
\* confirmation publishes no validation request and leaves the ledger and the
\* queue unchanged, every request published is a permitted combination, and
\* every serial the ledger is rewritten to carries a capacity its type permits.
Permits(letter, key) ==
    \/ letter \in {"A", "B", "C"} /\ key \in {<<"13">>, <<"12">>}
    \/ letter \in {"D", "E"} /\ key = <<"8.6">>
PermitsCode(letter, code) ==
    \/ code = XXX
    \/ letter \in {"A", "B", "C"} /\ code \in {<<"2", "7", "1">>, <<"2", "5", "0">>}
    \/ letter \in {"D", "E"} /\ code = <<"1", "7", "9">>
Refused ==
    /\ current_state = "AWAIT_FINISH_CONFIRM"
    /\ temp_serial_to_validate # None
    /\ ~Permits(temp_serial_to_validate[1], validated_model)
C10_IncompatibleFinishRejected ==
    [][/\ (Handled("scan") /\ Refused) =>
             /\ bus' = bus
             /\ ledger' = ledger
             /\ print_queue' = print_queue
       /\ Len(bus') > Len(bus) =>
             Permits(bus'[Len(bus')].temp_serial[1], bus'[Len(bus')].final_model_key)
       /\ ledger' # ledger =>
             \A i \in 1..Len(ledger') :
                 PermitsCode(ledger'[i].type, SubSeq(ledger'[i].NumeroSerie, 2, 4))
       /\ print_queue' # print_queue =>
             \A i \in 1..Len(print_queue') :
                 \E k \in 1..Len(ledger') :
                     /\ ledger'[k].NumeroSerie = print_queue'[i].serial
                     /\ PermitsCode(ledger'[k].type, SubSeq(print_queue'[i].serial, 2, 4))]_vars

C10_Witness ==
    /\ lastCmd.op = "scan"
    /\ lastCmd.data.state = "AWAIT_FINISH_CONFIRM"
    /\ lastCmd.data.temp_serial = <<"A", "0", "0", "0", "0">>
    /\ lastCmd.data.model = <<"8.6">>
    /\ lastCmd.data.text = <<"FINISH", " ", "8.6">>
    /\ current_state = "IDLE"
    /\ bus = <<>>
    /\ \E i \in 1..Len(ledger) : ledger[i].NumeroSerie = <<SERIAL_PREFIX_BASE, "1", "7", "9", "0", "0", "0", "1">>

\* C12: when every connection attempt of a probe fails with "network
\* unreachable", the probe opens exactly 3 connections and returns CommError,
\* not ready; a probe never reports Ready unless the connection it stopped at
\* was open and answered.
AllUnreachable(d) == \A i \in DOMAIN d : d[i].conn = "unreachable"
C12_UnreachableThreeAttempts ==
    lastCmd.op = "status" =>
        /\ AllUnreachable(lastCmd.data.device) =>
              /\ probe_log.attempts = 3
              /\ probe_log.status = "ERROR_COMM"
              /\ ~probe_log.ready
        /\ probe_log.ready =>
              /\ probe_log.attempts \in DOMAIN lastCmd.data.device
              /\ lastCmd.data.device[probe_log.attempts].conn = "ok"
              /\ lastCmd.data.device[probe_log.attempts].lines # <<>>

C12_Witness ==
    /\ lastCmd.op = "status"
    /\ AllUnreachable(lastCmd.data.device)
    /\ probe_log.attempts = 3
    /\ probe_log.status = "ERROR_COMM"

\* C20: for a response with an ERRORS line the probe reports Ready when the
\* error flag is zero; otherwise MediaOut when the media-out bit of the mask
\* is set (also when the head-open bit is set too), else HeadOpen when the
\* head-open bit is set, else UnknownError carrying the mask.
ErrorsLines(o) == {i \in 1..Len(o.lines) : o.lines[i].section = "ERRORS"}
LastErrorsLine(o) == o.lines[CHOOSE i \in ErrorsLines(o) : \A j \in ErrorsLines(o) : j <= i]
Answered(d) == \* the attempt whose connection opened, 0 when there is none
    IF \E i \in DOMAIN d : d[i].conn # "unreachable"
    THEN LET i == CHOOSE i \in DOMAIN d : d[i].conn # "unreachable"
                                          /\ \A j \in 1..(i - 1) : d[j].conn = "unreachable"
         IN  IF d[i].conn = "ok" THEN i ELSE 0
    ELSE 0
MediaOutBit(mask) == mask % 2 = 1
HeadOpenBit(mask) == (mask \div 4) % 2 = 1
C20_ErrorsDecoding ==
    (/\ lastCmd.op = "status"
     /\ Answered(lastCmd.data.device) # 0
     /\ ErrorsLines(lastCmd.data.device[Answered(lastCmd.data.device)]) # {}) =>
        LET e    == LastErrorsLine(lastCmd.data.device[Answered(lastCmd.data.device)])
            mask == int16(e.g1)
        IN  IF e.flag = "0" THEN probe_log.status = "OK" /\ probe_log.ready
            ELSE /\ ~probe_log.ready
                 /\ IF MediaOutBit(mask) THEN probe_log.status = "MEDIA_OUT"
                    ELSE IF HeadOpenBit(mask) THEN probe_log.status = "HEAD_OPEN"
                    ELSE /\ probe_log.status = "ERROR_UNKNOWN"
                         /\ int16(probe_log.detail) = mask
                         /\ LastN(probe_log.detail, Len(e.g1)) = e.g1

C20_Witness ==
    /\ lastCmd.op = "status"
    /\ Answered(lastCmd.data.device) = 2
    /\ LastErrorsLine(lastCmd.data.device[2]).g1 = <<"0", "5">>
    /\ probe_log.status = "MEDIA_OUT"
    /\ probe_log.attempts = 2

\* C17: in every state, also after SAV operations that failed or were applied
\* in part, the sub-ledger holds at most one record without departure
\* timestamp per serial number.
SavSerials == {savLedger[i].NumeroSerie : i \in 1..Len(savLedger)}
C17_AtMostOneOpenRecord ==
    \A s \in SavSerials : Cardinality(OpenRows(savLedger, s)) <= 1

\* C18: between SAV operations, the sav_status of a serial is true exactly
\* when the sub-ledger holds an open record for that serial.
C18_FlagIffOpenRecord ==
    \A i \in 1..Len(ledger) :
        (lower(ledger[i].sav_status) = "true")
            <=> (OpenRows(savLedger, ledger[i].NumeroSerie) # {})

\* C19: after any sequence of creations and validations the records carry
\* 4-digit sequences that increase strictly in creation order, so that no two
\* records share a sequence or a serial number.
C19_SequencesIncrease ==
    \A i, j \in 1..Len(ledger) :
        i < j => /\ WellFormed(ledger[i].NumeroSerie)
                 /\ WellFormed(ledger[j].NumeroSerie)
                 /\ Sequence(ledger[i].NumeroSerie) < Sequence(ledger[j].NumeroSerie)
                 /\ ledger[i].NumeroSerie # ledger[j].NumeroSerie
-----------------------------------------------------------------------------
(* Router commands *)
RouterOps == {"create", "reprint", "expedition", "sav_entry", "sav_departure", "create_qr"}
\* the fields the handler of op reads from the payload and refuses to go without
Required(op) ==
    CASE op = "create" -> {"checker_name"}
      [] op = "reprint" -> {"serial_number"}
      [] op = "expedition" -> {"serial_number", "timestamp_expedition"}
      [] op = "sav_entry" -> {"serial_number", "timestamp_sav_arrivee"}
      [] op = "sav_departure" -> {"serial_number", "timestamp_depart"}
      [] op = "create_qr" -> {"qr_text"}
\* the payload the handler of op met was malformed or lacked a required field
Rejectable(op, data) ==
    \/ ~Complete(data, Required(op))
    \/ op = "reprint" /\ data.serial_number = <<>>

\* C15: every router command, whether it succeeds or fails, produces an
\* operation-result notification that names the operation and carries a
\* success flag
C15_EveryCommandReports ==
    [][\A op \in RouterOps :
          Handled(op) => /\ published'.operation = op
                         /\ published'.success \in BOOLEAN]_vars

\* C16: a command whose payload is malformed or lacks a required field is
\* rejected with a failure result and changes neither the Serial Ledger, nor
\* the SAV Sub-Ledger, nor the print queue
C16_MalformedRejectedUnchanged ==
    [][\A op \in RouterOps :
          Handled(op) /\ Rejectable(op, lastCmd'.data)
            => /\ published' = [operation |-> op, success |-> FALSE]
               /\ UNCHANGED <<ledger, savLedger, print_queue>>]_vars

-----------------------------------------------------------------------------
(* Scan session *)
\* the messages a scan step added to the bus
NewMessages == SubSeq(bus', Len(bus) + 1, Len(bus'))
\* the step finalizes the expedition batch and publishes
Finalizes ==
    /\ Handled("scan")
    /\ lowerText(lastCmd'.data.text) = <<"expedition">>
    /\ expedition_mode_active
    /\ serials_for_expedition # <<>>
    /\ NewMessages # <<>>
HasOpenVisit(serial) == OpenRows(savLedger, serial) # {}

\* C11: at expedition finalize exactly one message is published for each
\* serial of the batch, SAV-Departure if the serial has an open SAV visit and
\* Shipping-Update otherwise, never both for the same serial
C11_OneMessagePerSerial ==
    [][Finalizes =>
          /\ Len(NewMessages) = Len(serials_for_expedition)
          /\ \A i \in 1..Len(NewMessages) :
                LET serial == serials_for_expedition[i]
                IN  /\ NewMessages[i].payload.data.serial_number = serial
                    /\ NewMessages[i].topic =
                          IF HasOpenVisit(serial) THEN "printer/sav_departure"
                          ELSE "printer/update_shipping_timestamp"
          /\ \A i, j \in 1..Len(NewMessages) :
                i # j => serials_for_expedition[i] # serials_for_expedition[j]]_vars

\* the armed countdown fires: no token is handled, no delayed reset runs
TimeoutFires ==
    /\ timeout_timer_id
    /\ ~timeout_timer_id'
    /\ UNCHANGED <<lastCmd, delayed_resets>>

\* C13: when an armed countdown fires, the session returns to Idle and every
\* scratch field is cleared: pending reprint, SAV and finish serial, expedition
\* batch and mode flag, pending model key, pending QR text and QR content
C13_TimeoutClearsScratch ==
    [][TimeoutFires =>
          /\ current_state' = "IDLE"
          /\ serial_to_reprint' = None
          /\ serial_for_sav' = None
          /\ temp_serial_to_validate' = None
          /\ serials_for_expedition' = <<>>
          /\ ~expedition_mode_active'
          /\ validated_model' = None
          /\ qr_text_to_print' = None
          /\ qr_content_to_encode' = None]_vars

\* the router takes the oldest message of the bus
Delivered ==
    /\ bus # <<>>
    /\ bus' = Tail(bus)
    /\ lastCmd'.tick # lastCmd.tick

\* C14: every message the scan session publishes for a confirmed workflow is
\* routed to a router handler and passes the payload validation of that
\* handler; the serial a reprint handler looks up is the confirmed one
C14_PublishedMessagesAccepted ==
    [][Delivered =>
          /\ Head(bus).topic \in Subscribed
          /\ \A op \in RouterOps : Handled(op) => ~Rejectable(op, lastCmd'.data)
          /\ Handled("reprint") =>
                /\ ~JSONDecodeError(Head(bus).payload)
                /\ lastCmd'.data.serial_number = Head(bus).payload.data.serial_to_reprint]_vars

-----------------------------------------------------------------------------
(* Status probe: responses without an ERRORS line *)
\* the response of the connection the probe stopped at
ProbeResponse == lastCmd.data.device[Answered(lastCmd.data.device)].lines
Probed == lastCmd.op = "status" /\ Answered(lastCmd.data.device) # 0
NoErrorsLine == ProbeResponse # <<>> /\ \A i \in 1..Len(ProbeResponse) : ProbeResponse[i].section # "ERRORS"
NoResponse == ProbeResponse = <<>>

\* C21 as stated: a response without ERRORS line is reported as CommError, no
\* response at all as UnknownError, and neither as Ready
C21_NoLineCommNoResponseUnknown ==
    Probed =>
        /\ NoErrorsLine => probe_log.status = "ERROR_COMM" /\ ~probe_log.ready
        /\ NoResponse => probe_log.status = "ERROR_UNKNOWN" /\ ~probe_log.ready

\* C21 amended: a response without ERRORS line is reported as UnknownError, no
\* response at all as CommError, and neither as Ready
C21_NoLineUnknownNoResponseComm ==
    Probed =>
        /\ NoErrorsLine => probe_log.status = "ERROR_UNKNOWN" /\ ~probe_log.ready
        /\ NoResponse => probe_log.status = "ERROR_COMM" /\ ~probe_log.ready

C21_Witness ==
    /\ Probed
    /\ NoErrorsLine
    /\ ProbeResponse[1].section = "WARNINGS"
    /\ probe_log.status = "ERROR_UNKNOWN"
    /\ probe_log.attempts = 1

\* C22: creation_timestamp, test_done_timestamp and shipping_timestamp of a
\* record change only from unset to set: once one of them is set, no ledger
\* operation clears or replaces it.
TimestampFields == {"TimestampImpression", "TimestampTestDone", "TimestampExpedition"}
C22_TimestampsSetOnce ==
    [][\A i \in 1..Len(ledger) : \A f \in TimestampFields :
          ledger[i][f] # "" => /\ i <= Len(ledger')
                               /\ ledger'[i][f] = ledger[i][f]]_vars

NamedBy(payload) ==
    {i \in 1..Len(ledger) : ledger[i].NumeroSerie = payload \/ ShortForm(ledger[i]) = payload}
C24_ReprintResolvesBothForms ==
    [][Handled("reprint") =>
         LET payload == lastCmd'.data.serial_number
         IN  /\ ledger' = ledger /\ savLedger' = savLedger
             /\ IF NamedBy(payload) # {}
                THEN /\ Len(print_queue') = Len(print_queue) + 1
                     /\ SubSeq(print_queue', 1, Len(print_queue)) = print_queue
                     /\ \E i \in NamedBy(payload) :
                           LET j == print_queue'[Len(print_queue')]
                           IN  /\ j.kind = "PRINT_ALL_THREE"
                               /\ j.qr = ledger[i].CodeAleatoireQR
                               /\ j.date = DateOf(ledger[i].TimestampImpression)
                     /\ published' = [operation |-> "reprint", success |-> TRUE]
                ELSE /\ print_queue' = print_queue
                     /\ published' = [operation |-> "reprint", success |-> FALSE]]_vars
\* C25: a cancel token discards the expedition batch and returns the session
\* to Idle exactly when expedition mode is active; with expedition mode off
\* the token cancels nothing: a session that is in a workflow stays in it.
Scanned(text) == Handled("scan") /\ lowerText(lastCmd'.data.text) = text
C25_CancelOnlyInExpeditionMode ==
    [][Scanned(<<"cancel">>) =>
         IF expedition_mode_active
         THEN /\ current_state' = "IDLE"
              /\ serials_for_expedition' = <<>>
              /\ ~expedition_mode_active'
         ELSE /\ current_state # "IDLE" => current_state' # "IDLE"
              /\ serials_for_expedition' = serials_for_expedition]_vars

\* a batch of one serial has just been cancelled
C25_Witness ==
    /\ lastCmd.op = "scan" /\ lastCmd.data.text = <<"cancel">>
    /\ lastCmd.data.state = "AWAIT_EXPEDITION_SERIAL"
    /\ current_state = "IDLE"
    /\ serials_for_expedition = <<>>
    /\ ~expedition_mode_active
\* C30: every global command that moves the session from Idle to an Await
\* state arms the countdown on entry.
EntersWorkflow == Handled("scan") /\ current_state = "IDLE" /\ current_state' # "IDLE"
ExpeditionStates == {"AWAIT_EXPEDITION_SERIAL", "AWAIT_EXPEDITION_CONFIRM"}
PrintSteps == {"print_v1", "print_main", "print_shipping"}
Transmits == attempt' # attempt /\ attempt' # {}
C26_TransmitOnlyAfterReadyProbe ==
    [][/\ Transmits => status_ready /\ wpc \in PrintSteps
       /\ (wpc' = "print_v1" /\ wpc # "print_v1") => wpc = "probe" /\ status_ready'
       /\ (wpc = "probe" /\ wpc' # "probe" /\ ~status_ready') =>
             /\ wpc' = "sleep"
             /\ print_queue' = print_queue /\ sent' = sent /\ attempt' = attempt
       /\ (wpc' = "probe" /\ wpc # "probe") => wpc = "peek" /\ attempt' = {}]_vars

\* a job that was transmitted and failed is about to be transmitted again,
\* after a new status query that answered Ready
C26_Witness ==
    /\ wpc = "print_v1" /\ status_ready
    /\ tries >= 1 /\ item_to_print.id \in sent
    /\ item_to_print.id \notin {removed[i] : i \in 1..Len(removed)}
\* C27: once the device answers Ready to every status query and takes every
\* label, the fair worker transmits and removes every job of the queue, and
\* the queue becomes empty when no further job arrives.
Range(q) == {q[i] : i \in 1..Len(q)}
C27_RecoveredDeviceDrainsQueue ==
    /\ \A id \in 1..MaxQueue :
          (env = GoodDevice /\ id \in Range(enqueued))
             ~> (id \in Range(removed) /\ id \in sent)
    /\ (env = GoodDevice) ~> (print_queue = <<>>)

\* after the repair the queue is drained: a job that had failed before is
\* removed
C27_Witness ==
    /\ env = GoodDevice
    /\ tries >= 2
    /\ enqueued # <<>> /\ removed = enqueued
    /\ print_queue = <<>>
\* C28: enqueue, peek and pop exclude one another, and no thread performs
\* device or ledger I/O while it holds the queue lock: a thread holds the lock
\* exactly between the with statement and the end of its block, the blocks
\* hold nothing but the queue statement, and the queue and the worker's item
\* change only under the lock.
RouterSections == {"append", "release"}
WorkerSections == {"peek_locked", "peek_release", "pop_locked", "pop_release"}
WorkerIO == wpc \in {"probe"} \cup PrintSteps /\ wpc' # wpc
RouterIO == router.pc = "idle" /\ lastCmd' # lastCmd
C28_QueueLockDiscipline ==
    /\ [](/\ ~(router.pc \in RouterSections /\ wpc \in WorkerSections)
          /\ queue_lock = "router" <=> router.pc \in RouterSections
          /\ queue_lock = "worker" <=> wpc \in WorkerSections)
    /\ [][/\ print_queue' # print_queue => queue_lock # "free" /\ queue_lock' = queue_lock
          /\ item_to_print' # item_to_print => queue_lock = "worker"
          /\ WorkerIO => queue_lock # "worker"
          /\ RouterIO => queue_lock # "router"]_vars

\* the router waits for the lock while the worker is inside its pop block
C28_Witness ==
    /\ router.pc = "acquire"
    /\ wpc = "pop_locked" /\ queue_lock = "worker"
    /\ Len(print_queue) >= 1
\* C29: the accesses to a ledger file are serialized: a read (the SAV-open
\* check) never falls between the opening and the closing of a rewrite, so it
\* never sees a truncated or partial record set, and no rewrite starts while
\* another is under way.
C29_LedgerAccessSerialized ==
    [][/\ Handled("sav_check") =>
            /\ ~csv_rewrite.open
            /\ Len(lastCmd'.data.rows) = Len(FinishedRecords)
       /\ (csv_rewrite'.open /\ csv_rewrite' # csv_rewrite) => ~csv_rewrite.open]_vars

-----------------------------------------------------------------------------
(* C31: the expedition batch accepts finished serials only *)

\* a serial of the scanner's format whose capacity marker is a concrete code
FinishedSerial(serial) ==
    /\ WellFormed(serial)
    /\ SubSeq(serial, 2, 4) \in SERIAL_PATTERN_CODES \ {XXX}
\* the serials that occur in the token, by the position where they start
SerialsIn(text) ==
    {i \in 1..Len(text) : i + 7 <= Len(text) /\ WellFormed(SubSeq(text, i, i + 7))
                            /\ SubSeq(text, i + 1, i + 3) \in SERIAL_PATTERN_CODES}
\* a token of the batch-accumulation state that is not one of its two commands
BatchToken ==
    /\ Handled("scan")
    /\ current_state = "AWAIT_EXPEDITION_SERIAL"
    /\ lowerText(lastCmd'.data.text) \notin {<<"expedition">>, <<"cancel">>}
NoDuplicateNoPlaceholder ==
    /\ \A i, j \in 1..Len(serials_for_expedition) :
          serials_for_expedition[i] = serials_for_expedition[j] => i = j
    /\ \A i \in 1..Len(serials_for_expedition) : FinishedSerial(serials_for_expedition[i])

\* C31 as stated: in the batch-accumulation state a token is appended to the
\* batch only if the token is a well-formed finished serial that the batch
\* does not hold; every other token leaves the session and the batch as
\* they are; the batch never holds a duplicate or a placeholder serial.
C31_OnlyFinishedSerialTokensAppended ==
    /\ [](NoDuplicateNoPlaceholder)
    /\ [][BatchToken =>
           LET text == lastCmd'.data.text
           IN  IF serials_for_expedition' # serials_for_expedition
               THEN /\ FinishedSerial(text)
                    /\ text \notin Range(serials_for_expedition)
                    /\ serials_for_expedition' = Append(serials_for_expedition, text)
               ELSE scanVars' = scanVars]_vars

\* C31 as amended: in the batch-accumulation state a token appends to the
\* batch the first well-formed serial that occurs in it, and only when that
\* serial is finished and the batch does not hold it; a token in which no
\* serial occurs, or whose first serial is a placeholder or is in the batch,
\* leaves the session and the batch as they are; the batch never holds a
\* duplicate or a placeholder serial.
C31_FirstSerialOfTokenAppended ==
    /\ [](NoDuplicateNoPlaceholder)
    /\ [][BatchToken =>
           LET text   == lastCmd'.data.text
               starts == SerialsIn(text)
               first  == CHOOSE i \in starts : \A j \in starts : i <= j
               serial == SubSeq(text, first, first + 7)
           IN  IF starts # {} /\ FinishedSerial(serial)
                  /\ serial \notin Range(serials_for_expedition)
               THEN /\ serials_for_expedition' = Append(serials_for_expedition, serial)
                    /\ current_state' = current_state
                    /\ expedition_mode_active' = expedition_mode_active
                    /\ bus' = bus
               ELSE scanVars' = scanVars]_vars

\* a batch of three serials, one of them taken out of a longer token, after
\* a placeholder serial was scanned and refused
C31_Witness ==
    /\ current_state = "AWAIT_EXPEDITION_SERIAL"
    /\ Len(serials_for_expedition) = 3
    /\ <<SERIAL_PREFIX_BASE, "2", "5", "0", "0", "0", "0", "3">> \in Range(serials_for_expedition)
    /\ lastCmd.op = "scan"
    /\ lastCmd.data.state = "AWAIT_EXPEDITION_SERIAL"
    /\ lastCmd.data.text = <<SERIAL_PREFIX_BASE, "X", "X", "X", "0", "0", "0", "2">>

-----------------------------------------------------------------------------
(* C38: a delayed reset and the workflow that follows the one it belongs to *)

\* a reset scheduled by _delayed_reset fires
ResetFires == delayed_resets' < delayed_resets

\* C38: a delayed reset acts on the workflow in which it was scheduled only.
\* No handler of the expedition workflow schedules one, so a reset that
\* fires while expedition mode is active was scheduled in a workflow that
\* has ended: it leaves the state, the mode and the batch as they are.
C38_StaleResetSparesNewWorkflow ==
    [][(ResetFires /\ expedition_mode_active) =>
         /\ current_state' = current_state
         /\ expedition_mode_active'
         /\ serials_for_expedition' = serials_for_expedition]_vars

-----------------------------------------------------------------------------
(* C33: the countdown and the transitions that no token drives *)

\* the pending countdown fires
CountdownExpires ==
    /\ timeout_timer_id
    /\ scheduled_timeouts' < scheduled_timeouts
    /\ delayed_resets' = delayed_resets
\* a token that the step of the workflow accepts: the session moves on
AcceptedToken == Handled("scan") /\ current_state' # current_state

\* C33: at most one countdown is pending and none in Idle; a token accepted
\* while a countdown is pending cancels it, so that the only countdown
\* pending afterwards is the one the new step armed; every change of the
\* session is made by a token or by the expiry of the pending countdown.
C33_ExpiryOnlyTokenlessTransition ==
    /\ [](/\ scheduled_timeouts <= 1
          /\ (timeout_timer_id <=> scheduled_timeouts = 1)
          /\ (current_state = "IDLE" => scheduled_timeouts = 0))
    /\ [][AcceptedToken => scheduled_timeouts' = IF timeout_timer_id' THEN 1 ELSE 0]_vars
    /\ [][scanVars' # scanVars => (Handled("scan") \/ CountdownExpires)]_vars

\* C33 as amended: at most one countdown is pending and none in Idle; a
\* token accepted while a countdown is pending cancels it; every change of
\* the session is made by a token, by the expiry of the pending countdown or
\* by the firing of a delayed reset that an invalid token scheduled.
C33_ExpiryAndDelayedResetOnly ==
    /\ [](/\ scheduled_timeouts <= 1
          /\ (timeout_timer_id <=> scheduled_timeouts = 1)
          /\ (current_state = "IDLE" => scheduled_timeouts = 0))
    /\ [][AcceptedToken => scheduled_timeouts' = IF timeout_timer_id' THEN 1 ELSE 0]_vars
    /\ [][scanVars' # scanVars => (Handled("scan") \/ CountdownExpires \/ ResetFires)]_vars

\* a serial accepted in the SAV workflow while its countdown was pending:
\* exactly one countdown is pending afterwards
C33_Witness ==
    /\ lastCmd.op = "scan"
    /\ lastCmd.data.state = "AWAIT_SAV_SERIAL"
    /\ current_state = "AWAIT_SAV_CONFIRM"
    /\ timeout_timer_id
    /\ scheduled_timeouts = 1
    /\ delayed_resets = 0

-----------------------------------------------------------------------------
(* C32: what a token publishes in a Confirm state *)

ConfirmStates ==
    {"AWAIT_REPRINT_CONFIRM", "AWAIT_SAV_CONFIRM", "AWAIT_FINISH_CONFIRM", "AWAIT_QR_CONFIRM"}
\* the confirmation of the state: the command word, with its argument for finish
Confirmation ==
    CASE current_state = "AWAIT_REPRINT_CONFIRM" -> <<"reprint">>
      [] current_state = "AWAIT_SAV_CONFIRM" -> <<"sav">>
      [] current_state = "AWAIT_QR_CONFIRM" -> <<"new", " ", "qr">>
      [] current_state = "AWAIT_FINISH_CONFIRM" -> <<"finish", " ">> \o validated_model
      [] OTHER -> None
\* a token is handled in a Confirm state
TokenInConfirm == Handled("scan") /\ current_state \in ConfirmStates
Confirms == TokenInConfirm /\ lowerText(lastCmd'.data.text) = Confirmation
\* message m carries the pending values of the workflow and its topic
BuiltFromPending(m) ==
    CASE current_state = "AWAIT_REPRINT_CONFIRM" ->
            /\ m.topic = "printer/request_full_reprint"
            /\ m.payload.kind = "json"
            /\ m.payload.data.serial_to_reprint = serial_to_reprint
      [] current_state = "AWAIT_SAV_CONFIRM" ->
            /\ m.topic = "printer/sav_entry"
            /\ m.payload.kind = "json"
            /\ m.payload.data.serial_number = serial_for_sav
      [] current_state = "AWAIT_QR_CONFIRM" ->
            /\ m.topic = "printer/create_qr"
            /\ m.payload.kind = "json"
            /\ m.payload.data.display_text = qr_text_to_print
            /\ m.payload.data.qr_content = qr_content_to_encode
      [] current_state = "AWAIT_FINISH_CONFIRM" ->
            /\ m.topic = "printer/validate_battery"
            /\ m.temp_serial = temp_serial_to_validate
            /\ m.final_model_key = validated_model
      [] OTHER -> FALSE
\* the finish workflow holds an inner QR code that the model does not fit
IncompatibleFinish ==
    /\ current_state = "AWAIT_FINISH_CONFIRM"
    /\ ~Permits(temp_serial_to_validate[1], validated_model)

\* C32 as stated: in a Confirm state the confirmation publishes exactly one
\* message, built from the pending values, and the session returns to Idle;
\* any other token publishes nothing.
C32_ConfirmationPublishesOne ==
    [][TokenInConfirm =>
         IF Confirms
         THEN /\ Len(NewMessages) = 1
              /\ BuiltFromPending(NewMessages[1])
              /\ current_state' = "IDLE"
         ELSE bus' = bus]_vars

\* C32 as amended: in a Confirm state the confirmation returns the session
\* to Idle and publishes at most one message, which is built from the
\* pending values; it publishes none when the finish combination is
\* incompatible (and none when the client is disconnected); any other token
\* publishes nothing and leaves the state as it is.
C32_ConfirmationPublishesAtMostOne ==
    [][TokenInConfirm =>
         IF Confirms
         THEN /\ current_state' = "IDLE"
              /\ Len(NewMessages) <= 1
              /\ Len(bus') = Len(bus) + Len(NewMessages)
              /\ NewMessages # <<>> => BuiltFromPending(NewMessages[1])
              /\ IncompatibleFinish => bus' = bus
         ELSE /\ bus' = bus
              /\ current_state' = current_state]_vars

\* a SAV entry confirmed with the client connected: one message on the bus,
\* for the pending serial, and the session idle
C32_Witness ==
    /\ lastCmd.op = "scan"
    /\ lastCmd.data.state = "AWAIT_SAV_CONFIRM"
    /\ lastCmd.data.text = <<"sav">>
    /\ current_state = "IDLE"
    /\ Len(bus) = 1
    /\ bus[1].topic = "printer/sav_entry"
    /\ bus[1].payload.data.serial_number = <<SERIAL_PREFIX_BASE, "2", "7", "1", "0", "0", "0", "0">>

-----------------------------------------------------------------------------
(* C34: the rows a SAV departure changes *)

\* C34: a SAV departure for serial s changes at most one row of the
\* sub-ledger, the most recent row of s with no departure, by setting its
\* departure timestamp to the one of the request; with no such row it
\* reports failure and changes neither ledger.
C34_DepartureStampsMostRecentOnly ==
    [][(/\ Handled("sav_departure")
        /\ Complete(lastCmd'.data, {"serial_number", "timestamp_depart"})) =>
         LET s    == lastCmd'.data.serial_number
             open == OpenRows(savLedger, s)
             last == CHOOSE i \in open : \A j \in open : j <= i
         IN  /\ Len(savLedger') = Len(savLedger)
             /\ \A i \in 1..Len(savLedger) :
                   savLedger'[i] # savLedger[i] =>
                      /\ open # {}
                      /\ i = last
                      /\ savLedger'[i] = [savLedger[i] EXCEPT
                                            !.TimestampDepart = lastCmd'.data.timestamp_depart]
             /\ open = {} => (~published'.success /\ UNCHANGED ledgerVars)]_vars

-----------------------------------------------------------------------------
(* C35: what an update of the Serial Ledger changes *)

LedgerUpdates == {"ledger_shipping", "ledger_test_done", "ledger_sav_status", "ledger_validate"}
\* the fields an update is meant to set
Targets(op) ==
    CASE op = "ledger_shipping" -> {"TimestampExpedition"}
      [] op = "ledger_test_done" -> {"TimestampTestDone", "version"}
      [] op = "ledger_sav_status" -> {"sav_status"}
      [] op = "ledger_validate" -> {"NumeroSerie", "TimestampTestDone"}
\* the row is the one the request names: by its serial, or for the serial
\* rewrite by its inner QR code (unit type and sequence digits)
Named(op, row, data) ==
    IF op = "ledger_validate"
    THEN LET digits == row.NumeroSerie
         IN  <<row.type>> \o SubSeq(digits, Len(digits) - 3, Len(digits)) = data.temp_serial
    ELSE row.NumeroSerie = data.serial_number

-----------------------------------------------------------------------------
(* C36: the serial a creation produces, up to the last sequence *)

\* C36: the serial written by a creation is the prefix, the capacity marker
\* and exactly 4 digits, and its sequence is 1 + the largest sequence of the
\* ledger (0 for a ledger without records), for every ledger, the one whose
\* largest sequence is 9999 included.
C36_FourDigitsAndNextSequence ==
    [][(Handled("ledger_create") /\ lastCmd'.fault = "none") =>
         LET serial == ledger'[Len(ledger')].NumeroSerie
         IN  /\ Len(ledger') = Len(ledger) + 1
             /\ Len(lastCmd'.data.numeric_part) = SERIAL_NUMERIC_LENGTH
             /\ Decimal(lastCmd'.data.numeric_part) = ExpectedNext(ledger)
             /\ WellFormed(serial)
             /\ SubSeq(serial, 2, 4) = XXX
             /\ Sequence(serial) = ExpectedNext(ledger)]_vars

-----------------------------------------------------------------------------
(* C37: the mask of the ERRORS line that decides the status *)

\* the probe got a response with an ERRORS line; the line that counts
ErrorsAnswered ==
    /\ lastCmd.op = "status"
    /\ Answered(lastCmd.data.device) # 0
    /\ ErrorsLines(lastCmd.data.device[Answered(lastCmd.data.device)]) # {}
DecidingLine == LastErrorsLine(lastCmd.data.device[Answered(lastCmd.data.device)])
\* the status follows the media-out and head-open bits of mask, media-out first
DecidedBy(mask) ==
    /\ probe_log.status = "MEDIA_OUT" <=> MediaOutBit(mask)
    /\ probe_log.status = "HEAD_OPEN" <=> (~MediaOutBit(mask) /\ HeadOpenBit(mask))

\* C37 as stated: with a non-zero ERRORS flag the media-out and head-open
\* bits are read in the first of the two masks of the ERRORS line; the
\* readiness reported depends on the ERRORS line only, whatever the
\* WARNINGS line carries.
C37_FirstMaskDecides ==
    ErrorsAnswered =>
        /\ probe_log.ready <=> DecidingLine.flag = "0"
        /\ DecidingLine.flag # "0" => DecidedBy(int16(DecidingLine.g2))

\* C37 as amended: with a non-zero ERRORS flag the media-out and head-open
\* bits are read in the second of the two masks of the ERRORS line (the
\* first mask is not looked at); the readiness reported depends on the
\* ERRORS line only, whatever the WARNINGS line carries.
C37_SecondMaskDecides ==
    ErrorsAnswered =>
        /\ probe_log.ready <=> DecidingLine.flag = "0"
        /\ DecidingLine.flag # "0" => DecidedBy(int16(DecidingLine.g1))

\* an ERRORS line whose first mask has the head-open bit and whose second
\* mask has the media-out bit: MediaOut is reported
C37_Witness ==
    /\ ErrorsAnswered
    /\ DecidingLine.flag = "1"
    /\ DecidingLine.g2 = <<"4">>
    /\ DecidingLine.g1 = <<"1">>
    /\ probe_log.status = "MEDIA_OUT"
    /\ ~probe_log.ready

\* C39: the router thread is never inside _send_zpl_to_printer with a custom
\* QR label while the worker is inside it with a label of the job at the head
\* of the queue: transmissions to the device are mutually exclusive
WorkerSending == wpc \in {"send_v1", "send_main", "send_shipping"}
RouterSending == router.pc = "send_qr"
C39_TransmissionsExclusive == ~(RouterSending /\ WorkerSending)

\* C40: initialising the header of a ledger file removes no data row: a file
\* whose header is present is left as it is, and a file whose header is missing
\* or malformed receives the header and keeps the rows it holds
HeaderPresent(file, header) == file.exists /\ file.line = header
C40_InitialisationKeepsRows ==
    [][/\ Handled("initialize_serial_csv") =>
            /\ ledger' = ledger
            /\ headers'.main = CsvFile(TRUE, SERIAL_CSV_HEADER)
            /\ HeaderPresent(headers.main, SERIAL_CSV_HEADER) => headers' = headers
       /\ Handled("initialize_sav_csv") =>
            /\ savLedger' = savLedger
            /\ headers'.sav = CsvFile(TRUE, SAV_CSV_HEADER)
            /\ HeaderPresent(headers.sav, SAV_CSV_HEADER) => headers' = headers]_vars

====
